---- MODULE Spec2Model ----
(***************************************************************************)
(* SwiftBeGone: the blocklist rule engine (blocklist.js) and the polling   *)
(* loop of main.js that feeds it and skips what it blocks.                 *)
(*                                                                         *)
(* A JavaScript string is a sequence of one-character strings.  The        *)
(* non-string values null and undefined are the one-element sequences      *)
(* Null and Undefined, whose element is no character; ANumber and AnObject *)
(* stand for a non-zero number and an object.  An array is a sequence of   *)
(* values.                                                                 *)
(***************************************************************************)
EXTENDS Naturals, Sequences, FiniteSets, TLC

\* ------------------------------------------------------------------------
\* JavaScript values
\* ------------------------------------------------------------------------

Null == <<"null">>

Undefined == <<"undefined">>

\* a number other than 0 and NaN
ANumber == <<"number">>

\* an object that is no array
AnObject == <<"object">>

NonStrings == {Null, Undefined, ANumber, AnObject}

\* typeof v === 'string'
IsString(v) == v \notin NonStrings

\* JavaScript truthiness: null, undefined and '' are falsy
Truthy(v) == IF IsString(v) THEN v # <<>> ELSE v \in {ANumber, AnObject}

\* a value handed to Array.isArray: an array, or a value that is none
JsArray(a) == [isArray |-> TRUE, val |-> a]

NonArray(v) == [isArray |-> FALSE, val |-> v]

\* the characters matched by \s and removed by String.prototype.trim
WhiteSpace == {" ", "\t", "\n"}

UpperChars == <<"A","B","C","D","E","F","G","H","I","J","K","L","M",
                "N","O","P","Q","R","S","T","U","V","W","X","Y","Z">>

LowerChars == <<"a","b","c","d","e","f","g","h","i","j","k","l","m",
                "n","o","p","q","r","s","t","u","v","w","x","y","z">>

UpperSet == {UpperChars[i] : i \in 1..Len(UpperChars)}

LowerOf ==
  [c \in UpperSet |->
     LowerChars[CHOOSE i \in 1..Len(UpperChars) : UpperChars[i] = c]]

\* String.prototype.toLowerCase on one character
ToLowerChar(c) == IF c \in UpperSet THEN LowerOf[c] ELSE c

toLowerCase(s) == [i \in 1..Len(s) |-> ToLowerChar(s[i])]

\* a trim that removes one leading whitespace character only
TrimStartOnce(s) == IF s # <<>> /\ Head(s) \in WhiteSpace THEN Tail(s) ELSE s

RECURSIVE TrimStart(_)
TrimStart(s) ==
  IF s # <<>> /\ Head(s) \in WhiteSpace THEN TrimStart(Tail(s)) ELSE s

RECURSIVE TrimEnd(_)
TrimEnd(s) ==
  IF s # <<>> /\ s[Len(s)] \in WhiteSpace
  THEN TrimEnd(SubSeq(s, 1, Len(s) - 1))
  ELSE s

\* String.prototype.trim
trim(s) == TrimEnd(TrimStart(s))

\* s.replace(/\s+/g, ' '): every maximal run of whitespace becomes one space
RECURSIVE CollapseWhiteSpace(_)
CollapseWhiteSpace(s) ==
  IF s = <<>> THEN <<>>
  ELSE IF Head(s) \in WhiteSpace
       THEN <<" ">> \o CollapseWhiteSpace(TrimStart(Tail(s)))
       ELSE <<Head(s)>> \o CollapseWhiteSpace(Tail(s))

\* s.replace(/\*/g, '')
RECURSIVE RemoveAsterisks(_)
RemoveAsterisks(s) ==
  IF s = <<>> THEN <<>>
  ELSE IF Head(s) = "*" THEN RemoveAsterisks(Tail(s))
       ELSE <<Head(s)>> \o RemoveAsterisks(Tail(s))

\* String.prototype.startsWith / endsWith / includes
startsWith(s, p) == Len(p) <= Len(s) /\ SubSeq(s, 1, Len(p)) = p

endsWith(s, p) ==
  Len(p) <= Len(s) /\ SubSeq(s, Len(s) - Len(p) + 1, Len(s)) = p

includes(s, p) ==
  \E k \in 0..(Len(s) - Len(p)) : SubSeq(s, k + 1, k + Len(p)) = p

\* Array.prototype.filter
RECURSIVE SelectSeqBy(_, _)
SelectSeqBy(list, keep) ==
  IF list = <<>> THEN <<>>
  ELSE IF Head(list) \in keep
       THEN <<Head(list)>> \o SelectSeqBy(Tail(list), keep)
       ELSE SelectSeqBy(Tail(list), keep)

\* [...new Set(list)]: the first occurrence of every value, in order
RECURSIVE Dedupe(_, _)
Dedupe(list, seen) ==
  IF list = <<>> THEN <<>>
  ELSE IF Head(list) \in seen
       THEN Dedupe(Tail(list), seen)
       ELSE <<Head(list)>> \o Dedupe(Tail(list), seen \cup {Head(list)})

\* ------------------------------------------------------------------------
\* blocklist.js
\* ------------------------------------------------------------------------

\* normalize without the replace(/\s+/g, ' ') step, as normalizeName was
normalizeWithoutCollapse(str) ==
  IF ~IsString(str) THEN <<>>
  ELSE toLowerCase(trim(str))

normalize(str) ==
  IF ~IsString(str) THEN <<>>
  ELSE CollapseWhiteSpace(toLowerCase(trim(str)))

\* sanitizeBlockedList without the [...new Set(normalized)] step
sanitizeBlockedListKeepingDuplicates(list) ==
  IF ~list.isArray THEN <<>>
  ELSE LET normalized == [i \in 1..Len(list.val) |-> normalize(list.val[i])]
       IN  SelectSeqBy(normalized,
                       {normalized[i] : i \in 1..Len(normalized)} \ {<<>>})

\* the argument is JsArray(the array) or NonArray(the value)
sanitizeBlockedList(list) ==
  IF ~list.isArray THEN <<>>
  ELSE LET normalized == [i \in 1..Len(list.val) |-> normalize(list.val[i])]
           nonBlank   == SelectSeqBy(normalized,
                           {normalized[i] : i \in 1..Len(normalized)} \ {<<>>})
       IN  Dedupe(nonBlank, {})

\* the key `${artistKey}|||${item.track}` of a sanitized track rule
TrackKey(item) ==
  (IF Truthy(item.artist) THEN item.artist ELSE <<>>)
    \o <<"|", "|", "|">> \o item.track

RECURSIVE DedupeTracks(_, _)
DedupeTracks(list, seen) ==
  IF list = <<>> THEN <<>>
  ELSE IF TrackKey(Head(list)) \in seen
       THEN DedupeTracks(Tail(list), seen)
       ELSE <<Head(list)>>
              \o DedupeTracks(Tail(list), seen \cup {TrackKey(Head(list))})

\* a list entry that is no object: null, or a primitive, whose fields
\* read as undefined
NonObject(type) == [typeof |-> type, track |-> Undefined, artist |-> Undefined]

\* item && typeof item === 'object'
IsObject(item) == "typeof" \notin DOMAIN item

\* the .map step that normalizes every artist given, blank ones too
SanitizeTrackItemKeepingBlankArtist(item) ==
  [track  |-> normalize(item.track),
   artist |-> IF Truthy(item.artist) THEN normalize(item.artist)
              ELSE Undefined]

\* one entry of the raw list after the .map step; an absent artist is
\* the field value Undefined
SanitizeTrackItem(item) ==
  [track  |-> normalize(item.track),
   artist |-> IF Truthy(item.artist) /\ Len(trim(item.artist)) > 0
              THEN normalize(item.artist)
              ELSE Undefined]

\* the entries of an array that pass the first filter of
\* sanitizeBlockedTracks
WithTrack(raw) ==
  SelectSeqBy(raw, {raw[i] : i \in {j \in 1..Len(raw) :
                                      IsObject(raw[j]) /\ Truthy(raw[j].track)}})

\* item.artist.trim is no function: the .map step raises a TypeError on
\* an entry whose artist is truthy and no string
sanitizeBlockedTracksThrows(list) ==
  /\ list.isArray
  /\ \E i \in 1..Len(WithTrack(list.val)) :
       /\ Truthy(WithTrack(list.val)[i].artist)
       /\ ~IsString(WithTrack(list.val)[i].artist)

\* the argument is JsArray(the array) or NonArray(the value); the result
\* when the call does not raise
sanitizeBlockedTracks(list) ==
  IF ~list.isArray THEN <<>>
  ELSE LET withTrack == WithTrack(list.val)
           mapped    == [i \in 1..Len(withTrack) |-> SanitizeTrackItem(withTrack[i])]
           valid     == SelectSeqBy(mapped,
                          {mapped[i] : i \in {j \in 1..Len(mapped) : Len(mapped[j].track) > 0}})
       IN  DedupeTracks(valid, {})

\* sanitizeBlockedPatterns that normalizes its entries as sanitizeBlockedList
\* does
sanitizeBlockedPatternsFoldingCase(list) ==
  IF ~list.isArray THEN <<>>
  ELSE LET folded   == [i \in 1..Len(list.val) |-> normalize(list.val[i])]
           nonBlank == SelectSeqBy(folded,
                                   {folded[i] : i \in 1..Len(folded)} \ {<<>>})
       IN  Dedupe(nonBlank, {})

\* the argument is JsArray(the array) or NonArray(the value)
sanitizeBlockedPatterns(list) ==
  IF ~list.isArray THEN <<>>
  ELSE LET trimmed  == [i \in 1..Len(list.val) |->
                          IF IsString(list.val[i]) THEN trim(list.val[i])
                          ELSE <<>>]
           nonBlank == SelectSeqBy(trimmed,
                                   {trimmed[i] : i \in 1..Len(trimmed)} \ {<<>>})
       IN  Dedupe(nonBlank, {})

isBlockedArtist(artistName, blockedArtists) ==
  IF ~Truthy(artistName) THEN FALSE
  ELSE LET normalizedArtist == normalize(artistName)
       IN  \E i \in 1..Len(blockedArtists) :
             normalize(blockedArtists[i]) = normalizedArtist

\* isAnyArtistBlocked with every in place of some
isEveryArtistBlocked(artistArray, blockedArtists) ==
  \A i \in 1..Len(artistArray) : isBlockedArtist(artistArray[i], blockedArtists)

isAnyArtistBlocked(artistArray, blockedArtists) ==
  \E i \in 1..Len(artistArray) : isBlockedArtist(artistArray[i], blockedArtists)

\* isBlockedTrack without the comparison of the rule's artist
isBlockedTrackAnyArtist(artistName, trackName, blockedTracks) ==
  IF ~Truthy(trackName) THEN FALSE
  ELSE \E i \in 1..Len(blockedTracks) :
         blockedTracks[i].track = normalize(trackName)

isBlockedTrack(artistName, trackName, blockedTracks) ==
  IF ~Truthy(trackName) THEN FALSE
  ELSE LET normalizedArtist ==
             IF Truthy(artistName) THEN normalize(artistName) ELSE Undefined
           normalizedTrack == normalize(trackName)
       IN  \E i \in 1..Len(blockedTracks) :
             /\ blockedTracks[i].track = normalizedTrack
             /\ \/ blockedTracks[i].artist = Undefined
                \/ /\ normalizedArtist # Undefined
                   /\ blockedTracks[i].artist = normalizedArtist

\* matchPattern with every wildcard pattern treated as *word*
matchPatternContains(pattern, text) ==
  IF ~Truthy(pattern) \/ ~Truthy(text) THEN FALSE
  ELSE LET normalizedPattern == normalize(pattern)
           normalizedText    == normalize(text)
           cleanPattern      == RemoveAsterisks(normalizedPattern)
       IN  IF Len(cleanPattern) = 0 THEN FALSE
           ELSE IF startsWith(normalizedPattern, <<"*">>)
                   \/ endsWith(normalizedPattern, <<"*">>)
                THEN includes(normalizedText, cleanPattern)
           ELSE normalizedText = normalizedPattern

matchPattern(pattern, text) ==
  IF ~Truthy(pattern) \/ ~Truthy(text) THEN FALSE
  ELSE LET normalizedPattern == normalize(pattern)
           normalizedText    == normalize(text)
           cleanPattern      == RemoveAsterisks(normalizedPattern)
       IN  IF Len(cleanPattern) = 0 THEN FALSE
           ELSE IF startsWith(normalizedPattern, <<"*">>)
                   /\ endsWith(normalizedPattern, <<"*">>)
                THEN includes(normalizedText, cleanPattern)
           ELSE IF startsWith(normalizedPattern, <<"*">>)
                THEN endsWith(normalizedText, cleanPattern)
           ELSE IF endsWith(normalizedPattern, <<"*">>)
                THEN startsWith(normalizedText, cleanPattern)
           ELSE normalizedText = normalizedPattern

\* isCollaborationBlocked with the containment test the wrong way round
isCollaborationBlockedReversed(artistArray, blockedArtists) ==
  \E i \in 1..Len(artistArray) :
    \E j \in 1..Len(blockedArtists) :
      includes(normalize(blockedArtists[j]), normalize(artistArray[i]))

isCollaborationBlocked(artistArray, blockedArtists) ==
  \E i \in 1..Len(artistArray) :
    \E j \in 1..Len(blockedArtists) :
      includes(normalize(artistArray[i]), normalize(blockedArtists[j]))

\* the verdicts isBlocked returns; the reason null is written "null"
Verdict(b, r) == [blocked |-> b, reason |-> r]

\* const artistArray = Array.isArray(artistNames) ? artistNames : [artistNames]
\* the argument is [isArray |-> BOOLEAN, val |-> the array or the single value]
ArtistArray(artistNames) ==
  IF artistNames.isArray THEN artistNames.val ELSE <<artistNames.val>>

\* isBlocked without its second look at the rules that have no artist
NoArtistlessTrackRule(trackName, blockedTracks) == FALSE

\* blockedTracks.some(b => b.track === normalizedTrack && b.artist === undefined)
HasArtistlessTrackRule(trackName, blockedTracks) ==
  \E i \in 1..Len(blockedTracks) :
    /\ blockedTracks[i].track = normalize(trackName)
    /\ blockedTracks[i].artist = Undefined

\* isBlocked with the artist step ahead of the track and pattern steps
isBlockedArtistFirst(artistNames, trackName, blockedArtists, blockedTracks, blockedPatterns, reverseMode, blockCollaborations) ==
  LET artistArray == ArtistArray(artistNames)
  IN  IF reverseMode /\ ~isAnyArtistBlocked(artistArray, blockedArtists)
      THEN Verdict(TRUE, "reverse")
      ELSE IF isAnyArtistBlocked(artistArray, blockedArtists)
      THEN Verdict(TRUE, "artist")
      ELSE IF \E i \in 1..Len(artistArray) :
                isBlockedTrack(artistArray[i], trackName, blockedTracks)
      THEN Verdict(TRUE, "track")
      ELSE IF HasArtistlessTrackRule(trackName, blockedTracks)
      THEN Verdict(TRUE, "track")
      ELSE IF \E i \in 1..Len(blockedPatterns) :
                matchPattern(blockedPatterns[i], trackName)
      THEN Verdict(TRUE, "pattern")
      ELSE IF blockCollaborations /\ ~reverseMode
              /\ isCollaborationBlocked(artistArray, blockedArtists)
      THEN Verdict(TRUE, "artist")
      ELSE Verdict(FALSE, "null")

\* isBlocked with a reason of its own for the collaboration step
isBlockedCollaborationReason(artistNames, trackName, blockedArtists, blockedTracks, blockedPatterns, reverseMode, blockCollaborations) ==
  LET artistArray == ArtistArray(artistNames)
  IN  IF reverseMode /\ ~isAnyArtistBlocked(artistArray, blockedArtists)
      THEN Verdict(TRUE, "reverse")
      ELSE IF \E i \in 1..Len(artistArray) :
                isBlockedTrack(artistArray[i], trackName, blockedTracks)
      THEN Verdict(TRUE, "track")
      ELSE IF HasArtistlessTrackRule(trackName, blockedTracks)
      THEN Verdict(TRUE, "track")
      ELSE IF \E i \in 1..Len(blockedPatterns) :
                matchPattern(blockedPatterns[i], trackName)
      THEN Verdict(TRUE, "pattern")
      ELSE IF isAnyArtistBlocked(artistArray, blockedArtists)
      THEN Verdict(TRUE, "artist")
      ELSE IF blockCollaborations /\ ~reverseMode
              /\ isCollaborationBlocked(artistArray, blockedArtists)
      THEN Verdict(TRUE, "collaboration")
      ELSE Verdict(FALSE, "null")

isBlocked(artistNames, trackName, blockedArtists, blockedTracks, blockedPatterns, reverseMode, blockCollaborations) ==
  LET artistArray == ArtistArray(artistNames)
  IN  IF reverseMode /\ ~isAnyArtistBlocked(artistArray, blockedArtists)
      THEN Verdict(TRUE, "reverse")
      ELSE IF \E i \in 1..Len(artistArray) :
                isBlockedTrack(artistArray[i], trackName, blockedTracks)
      THEN Verdict(TRUE, "track")
      ELSE IF HasArtistlessTrackRule(trackName, blockedTracks)
      THEN Verdict(TRUE, "track")
      ELSE IF \E i \in 1..Len(blockedPatterns) :
                matchPattern(blockedPatterns[i], trackName)
      THEN Verdict(TRUE, "pattern")
      ELSE IF isAnyArtistBlocked(artistArray, blockedArtists)
      THEN Verdict(TRUE, "artist")
      ELSE IF blockCollaborations /\ ~reverseMode
              /\ isCollaborationBlocked(artistArray, blockedArtists)
      THEN Verdict(TRUE, "artist")
      ELSE Verdict(FALSE, "null")

\* Array.isArray(a) ? a : no entries, as the guards of isBlockedArtist,
\* isBlockedTrack, isCollaborationBlocked and the pattern step read a rule
\* list
ArrayOrNone(a) == IF a.isArray THEN a.val ELSE <<>>

\* isBlocked raises a TypeError at blockedTracks.some(...) when the reverse
\* step has not returned and blockedTracks is no array; the rule lists are
\* JsArray(the array) or NonArray(the value)
isBlockedThrows(artistNames, trackName, blockedArtists, blockedTracks, reverseMode) ==
  /\ ~(reverseMode /\ ~isAnyArtistBlocked(ArtistArray(artistNames),
                                          ArrayOrNone(blockedArtists)))
  /\ ~blockedTracks.isArray

\* ------------------------------------------------------------------------
\* The strings the model evaluates (artist names, titles, patterns)
\* ------------------------------------------------------------------------

\* 'Taylor Swift'
TaylorSwift ==
  <<"T", "a", "y", "l", "o", "r", " ", "S", "w", "i", "f", "t">>

\* '  taylor \tSWIFT '
TaylorSwiftVariant ==
  <<" ", " ", "t", "a", "y", "l", "o", "r", " ", "\t", "S", "W", "I", "F", "T", " ">>

\* 'Taylor Swift feat. Ed Sheeran'
TaylorSwiftFeat ==
  <<"T", "a", "y", "l", "o", "r", " ", "S", "w", "i", "f", "t", " ",
    "f", "e", "a", "t", ".", " ", "E", "d", " ",
    "S", "h", "e", "e", "r", "a", "n">>

\* 'Drake'
Drake ==
  <<"D", "r", "a", "k", "e">>

\* ' DRAKE '
DrakeVariant ==
  <<" ", "D", "R", "A", "K", "E", " ">>

\* '  '
Blank ==
  <<" ", " ">>

\* 'Love Story'
LoveStory ==
  <<"L", "o", "v", "e", " ", "S", "t", "o", "r", "y">>

\* ' love  STORY'
LoveStoryVariant ==
  <<" ", "l", "o", "v", "e", " ", " ", "S", "T", "O", "R", "Y">>

\* 'Song (Acoustic)'
SongAcoustic ==
  <<"S", "o", "n", "g", " ", "(", "A", "c", "o", "u", "s", "t", "i", "c", ")">>

\* 'Song - Acoustic'
SongDashAcoustic ==
  <<"S", "o", "n", "g", " ", "-", " ", "A", "c", "o", "u", "s", "t", "i", "c">>

\* '*acoustic'
PatAcoustic ==
  <<"*", "a", "c", "o", "u", "s", "t", "i", "c">>

\* 'Love*'
PatLovePrefix ==
  <<"L", "o", "v", "e", "*">>

\* ' *Story* '
PatStory ==
  <<" ", "*", "S", "t", "o", "r", "y", "*", " ">>

\* '*'
PatStar ==
  <<"*">>

\* '*live'
PatLive ==
  <<"*", "l", "i", "v", "e">>

\* 'live*'
PatLivePrefix ==
  <<"l", "i", "v", "e", "*">>

\* '* live'
PatSpaceLive ==
  <<"*", " ", "l", "i", "v", "e">>

\* 'Song Title (Live)'
SongTitleLive ==
  <<"S", "o", "n", "g", " ", "T", "i", "t", "l", "e", " ",
    "(", "L", "i", "v", "e", ")">>

\* 'Song Title (Live Version)'
SongTitleLiveVersion ==
  <<"S", "o", "n", "g", " ", "T", "i", "t", "l", "e", " ",
    "(", "L", "i", "v", "e", " ", "V", "e", "r", "s", "i", "o", "n", ")">>

\* 'A Live One'
ALiveOne ==
  <<"A", " ", "L", "i", "v", "e", " ", "O", "n", "e">>

\* 'Song Title - Live'
SongTitleDashLive ==
  <<"S", "o", "n", "g", " ", "T", "i", "t", "l", "e", " ", "-", " ",
    "L", "i", "v", "e">>

\* 'Live Version'
LiveVersion ==
  <<"L", "i", "v", "e", " ", "V", "e", "r", "s", "i", "o", "n">>

\* ------------------------------------------------------------------------
\* Bounds and input sets
\* ------------------------------------------------------------------------

\* the longest observed artist list
MaxArtists == 2

\* the longest generated pattern or title
MaxStrLen == 3

\* all sequences over S of length at most n
SeqsUpTo(S, n) == UNION {[1..k -> S] : k \in 0..n}

\* artist names as a provider reports them
ObservedArtistNames ==
  {TaylorSwift, TaylorSwiftVariant, TaylorSwiftFeat, Drake, Null}

\* the artistNames argument: an array, or one value that is no array
ObservedArtists ==
  {[isArray |-> TRUE, val |-> l] : l \in SeqsUpTo(ObservedArtistNames, MaxArtists)}
    \cup {[isArray |-> FALSE, val |-> a] : a \in ObservedArtistNames}

ObservedTracks == {LoveStory, SongAcoustic, SongDashAcoustic, <<>>}

\* stored blocked_artists lists, as written by the user
ArtistRuleLists ==
  { <<>>,
    <<TaylorSwift>>,
    <<TaylorSwiftVariant, Blank, DrakeVariant, TaylorSwift>> }

TrackAnyArtist == [track |-> LoveStory, artist |-> Undefined]

TrackByTaylor == [track |-> LoveStoryVariant, artist |-> TaylorSwiftVariant]

TrackBlankArtist == [track |-> LoveStory, artist |-> Blank]

TrackBlankTitle == [track |-> Blank, artist |-> Drake]

\* stored blocked_tracks lists
TrackRuleLists ==
  { <<>>,
    <<TrackAnyArtist>>,
    <<TrackByTaylor>>,
    <<TrackBlankTitle, TrackBlankArtist, TrackAnyArtist>> }

\* stored blocked_patterns lists
PatternRuleLists ==
  { <<>>,
    <<PatAcoustic>>,
    <<PatStar, Null, PatStory, PatLovePrefix>> }

\* the keys of the electron-store the engine's caller reads
StoreValues ==
  [blocked_artists      : ArtistRuleLists,
   blocked_tracks       : TrackRuleLists,
   blocked_patterns     : PatternRuleLists,
   reverse_mode         : BOOLEAN,
   block_collaborations : BOOLEAN]

\* the longest list handed to sanitizeBlockedList
MaxListLen == 3

NormalizeAlphabet == {"a", "B", " ", "\t"}

\* the values handed to normalize
NormalizeInputs ==
  SeqsUpTo(NormalizeAlphabet, MaxStrLen)
    \cup {TaylorSwift, TaylorSwiftVariant, DrakeVariant}
    \cup NonStrings

\* the entries of a list as a caller may hand it to sanitizeBlockedList
ListEntries ==
  {TaylorSwift, TaylorSwiftVariant, Drake, DrakeVariant, Blank, Null}

\* the values handed to sanitizeBlockedList
ListInputs ==
  {JsArray(l) : l \in SeqsUpTo(ListEntries, MaxListLen)}
    \cup {NonArray(v) : v \in NonStrings \cup {TaylorSwift}}

\* the longest list handed to sanitizeBlockedTracks
MaxTrackListLen == 2

\* the track field of an entry: 'a', ' A ', ' ', '', missing, a number
EntryTracks == {<<"a">>, <<" ", "A", " ">>, <<" ">>, <<>>, Undefined, ANumber}

\* the artist field of an entry: missing, null, '', ' ', 'b', ' B', a
\* number
EntryArtists ==
  {Undefined, Null, <<>>, <<" ">>, <<"b">>, <<" ", "B">>, ANumber}

\* the entries of a list as a caller may hand it to sanitizeBlockedTracks
TrackEntries ==
  [track : EntryTracks, artist : EntryArtists]
    \cup {NonObject("null"), NonObject("number")}

\* the values handed to sanitizeBlockedTracks
TrackListInputs ==
  {JsArray(l) : l \in SeqsUpTo(TrackEntries, MaxTrackListLen)}
    \cup {NonArray(v) : v \in NonStrings \cup {TaylorSwift}}

\* '*Live'
PatLiveUpper == <<"*", "L", "i", "v", "e">>

\* ' *Live '
PatLiveUpperSpaced == <<" ", "*", "L", "i", "v", "e", " ">>

\* the entries of a list as a caller may hand it to sanitizeBlockedPatterns
PatternEntries ==
  {PatLive, PatLiveUpper, PatLiveUpperSpaced, Blank, Null, ANumber}

\* the values handed to sanitizeBlockedPatterns
PatternListInputs ==
  {JsArray(l) : l \in SeqsUpTo(PatternEntries, MaxListLen)}
    \cup {NonArray(v) : v \in NonStrings \cup {PatLive}}

\* the calls of isBlocked in one run
MaxEvaluations == 3

\* what the polls of one run observe, and the settings they find
PurityArtists == {JsArray(<<TaylorSwift>>), JsArray(<<Drake>>)}

PurityTracks == {LoveStory, SongAcoustic}

PurityStores ==
  {[blocked_artists |-> <<TaylorSwift>>, blocked_tracks |-> <<>>,
    blocked_patterns |-> <<>>, reverse_mode |-> r,
    block_collaborations |-> FALSE] : r \in BOOLEAN}
    \cup {[blocked_artists |-> <<>>, blocked_tracks |-> <<TrackAnyArtist>>,
           blocked_patterns |-> <<PatAcoustic>>, reverse_mode |-> FALSE,
           block_collaborations |-> FALSE]}

\* the arguments of a direct call of isBlocked, of any shape
CallArtists ==
  {JsArray(<<TaylorSwift>>), JsArray(<<Drake, ANumber>>), JsArray(<<>>),
   NonArray(Null), NonArray(ANumber)}

CallTracks == {LoveStory, Null, ANumber}

CallArtistRules == {JsArray(<<TaylorSwift>>), NonArray(Null), NonArray(AnObject)}

CallTrackRules ==
  {JsArray(<<>>), JsArray(<<[track |-> toLowerCase(LoveStory), artist |-> Undefined]>>),
   NonArray(Null), NonArray(Undefined), NonArray(AnObject)}

CallPatternRules == {JsArray(<<PatStory>>), NonArray(Null), NonArray(PatStory)}

PatternAlphabet == {"a", "B", " ", "*"}

\* patterns as sanitizeBlockedPatterns stores them: trimmed and non-empty
MatchPatterns ==
  ({trim(p) : p \in SeqsUpTo(PatternAlphabet, MaxStrLen)}
     \cup {PatLive, PatLivePrefix, PatSpaceLive}) \ {<<>>}

MatchTexts ==
  SeqsUpTo(PatternAlphabet, MaxStrLen)
    \cup {SongTitleLive, SongTitleLiveVersion, ALiveOne, SongTitleDashLive,
          LiveVersion}

\* ------------------------------------------------------------------------
\* State
\* ------------------------------------------------------------------------

VARIABLES
  pc,              \* "poll", "evaluated": one evaluation of the engine
                   \* "match", "matched": one call of matchPattern
                   \* "normalize", "normalized": one call of normalize
                   \* "sanitize", "sanitized": one call of sanitizeBlockedList
                   \* "sanitizeTracks", "tracksSanitized", "threw": one call
                   \* of sanitizeBlockedTracks
                   \* "sanitizePatterns", "patternsSanitized": one call of
                   \* sanitizeBlockedPatterns
                   \* "call", "returned", "threw": one call of isBlocked
  store,           \* the persisted settings
  artistNames,     \* the observed artists handed to isBlocked
  trackName,       \* the observed title handed to isBlocked
  blockedArtists,  \* sanitizeBlockedList(store.get('blocked_artists'))
  blockedTracks,   \* sanitizeBlockedTracks(store.get('blocked_tracks'))
  blockedPatterns, \* sanitizeBlockedPatterns(store.get('blocked_patterns'))
  blocked,         \* the verdict isBlocked returned
  evaluations,     \* the calls of isBlocked so far: arguments and verdict
  pattern,         \* matchPattern's first argument
  text,            \* matchPattern's second argument
  matched,         \* matchPattern's result
  str,             \* normalize's argument
  normalized,      \* normalize's result
  list,            \* the argument of the sanitizer called
  sanitized,       \* its result
  exported,        \* what blocklist:export returned last, or NoExport
  app,             \* "loading", "running" (after whenReady), "quitting"
  enabled,         \* store.get('enabled')
  spotifyConnected, \* spotify.isSpotifyConnected()
  platform,        \* process.platform
  isMusicPlaying,
  pollingInterval, \* the handle of the polling timer, or NoTimer
  timers,          \* the interval timers that are armed, each with its
                   \* period and the time of its next run
  now,             \* Date.now()
  lastSkipTime,
  cycles,          \* the calls of pollNowPlaying that await the
                   \* getCurrentlyPlaying of each provider
  skipCommands,    \* the skipToNext calls made, each with its caller's
                   \* locals and, once the call has settled, its outcome
  currentStatus,
  sessionStats,
  totalStats,      \* the stats_total_blocks keys of the store
  errorTimeouts,   \* the pending timeouts that clear currentStatus.error
  clicks,          \* the clicks on the tray menu and in the settings
                   \* window so far
  ticks,           \* the steps of the clock so far
  nowPlaying,      \* the title the loop saw last, or NoNowPlaying
  history,         \* the titles the loop saw, the newest first
  last,            \* the handler that ran last, what it was given and
                   \* how it left its poll cycle
  server,          \* oauthServer.js: the call of startOAuthServer whose
                   \* server is listening, or NoServer
  oauthCalls,      \* the calls of startOAuthServer so far: the promise
                   \* of each and what became of its server
  oauthTimers,     \* the calls whose five-minute timeout is pending
  tokens,          \* the spotify_access_token, spotify_refresh_token and
                   \* spotify_token_expires_at keys of the store
  refreshes        \* the token refresh requests sent, and their outcome

loopVars ==
  <<app, enabled, spotifyConnected, platform, isMusicPlaying,
    pollingInterval, timers, now, lastSkipTime, cycles, skipCommands,
    currentStatus, sessionStats, totalStats, errorTimeouts, clicks, ticks,
    nowPlaying, history, last>>

vars ==
  <<pc, store, artistNames, trackName, blockedArtists, blockedTracks,
    blockedPatterns, blocked, evaluations, pattern, text, matched, str,
    normalized, list, sanitized, exported, loopVars, server, oauthCalls,
    oauthTimers, tokens, refreshes>>

engineVars ==
  <<store, artistNames, trackName, blockedArtists, blockedTracks,
    blockedPatterns, blocked, evaluations>>

patternVars == <<pattern, text, matched>>

sanitizerVars == <<str, normalized, list, sanitized, exported>>

\* the tagged value of a flag of imported data: a boolean, or none
Flag(b) == [isBoolean |-> TRUE, val |-> b]

NoFlag == [isBoolean |-> FALSE, val |-> FALSE]

\* nothing was exported yet
NoExport ==
  [artists |-> NonArray(Undefined), tracks |-> NonArray(Undefined),
   patterns |-> NonArray(Undefined), blockCollaborations |-> NoFlag,
   reverseMode |-> NoFlag, version |-> "undefined"]

\* pollingInterval = null
NoTimer == 0

SKIP_COOLDOWN_MS == 2500

POLL_INTERVAL_MS == 2000

IDLE_POLL_INTERVAL_MS == 5000

\* Date.now() when the module is loaded: later than the cooldown after 0
StartTime == SKIP_COOLDOWN_MS

IdleStatus ==
  [source |-> "idle", artist |-> NonArray(Null), track |-> Null,
   error |-> Null]

NoStats == [total |-> 0, artist |-> 0, track |-> 0, pattern |-> 0, reverse |-> 0]

Event(handler, result, end, skip) ==
  [handler |-> handler, result |-> result, end |-> end, skip |-> skip]

NoCycles == [p \in {"spotify", "apple-music"} |-> 0]

\* let nowPlaying = null
NoNowPlaying == [source |-> "null", artist |-> Null, track |-> Null]

\* a handler that is no step of a poll cycle
NoEvent == Event("none", "none", "none", "none")

oauthVars == <<server, oauthCalls, oauthTimers>>

tokenVars == <<tokens, refreshes>>

\* let server = null
NoServer == 0

\* a key of the store that is not set
NoToken == 0

\* the store without the three token keys
NoTokens == [access_token |-> NoToken, refresh_token |-> NoToken,
             expires_at |-> NoToken]

\* oauthServer.js and spotify.js once loaded, Spotify never connected
AuthAtRest ==
  /\ server = NoServer
  /\ oauthCalls = <<>>
  /\ oauthTimers = {}
  /\ tokens = NoTokens
  /\ refreshes = <<>>

\* the module-level state of main.js once the file is loaded
LoopAtRest ==
  /\ app = "loading"
  /\ enabled = TRUE
  /\ spotifyConnected = FALSE
  /\ platform = "darwin"
  /\ isMusicPlaying = FALSE
  /\ pollingInterval = NoTimer
  /\ timers = {}
  /\ now = StartTime
  /\ lastSkipTime = 0
  /\ cycles = NoCycles
  /\ skipCommands = <<>>
  /\ currentStatus = IdleStatus
  /\ sessionStats = NoStats
  /\ totalStats = NoStats
  /\ errorTimeouts = 0
  /\ clicks = 0
  /\ ticks = 0
  /\ nowPlaying = NoNowPlaying
  /\ history = <<>>
  /\ last = NoEvent

\* DEFAULT_SETTINGS of main.js
DefaultStore ==
  [blocked_artists      |-> <<TaylorSwift>>,
   blocked_tracks       |-> <<>>,
   blocked_patterns     |-> <<>>,
   reverse_mode         |-> FALSE,
   block_collaborations |-> FALSE]

\* ------------------------------------------------------------------------
\* The rule engine as pollNowPlaying calls it
\* ------------------------------------------------------------------------

EngineInit ==
  /\ pc = "poll"
  /\ store \in StoreValues
  /\ artistNames \in ObservedArtists
  /\ trackName \in ObservedTracks
  /\ blockedArtists = <<>>
  /\ blockedTracks = <<>>
  /\ blockedPatterns = <<>>
  /\ blocked = Verdict(FALSE, "null")
  /\ evaluations = <<>>
  /\ pattern = <<>>
  /\ text = <<>>
  /\ matched = FALSE
  /\ str = <<>>
  /\ normalized = <<>>
  /\ list = JsArray(<<>>)
  /\ sanitized = <<>>
  /\ exported = NoExport
  /\ AuthAtRest
  /\ LoopAtRest

\* one call of isBlocked as the log of evaluations keeps it
Evaluation(artists, track, artistRules, trackRules, patternRules, reverseMode, collaborations, verdict) ==
  [artistNames |-> artists, trackName |-> track,
   blockedArtists |-> artistRules, blockedTracks |-> trackRules,
   blockedPatterns |-> patternRules, reverseMode |-> reverseMode,
   blockCollaborations |-> collaborations, verdict |-> verdict]

\* an evaluation whose verdict depends on the one before: once a track was
\* blocked, the next one is blocked too
EvaluateRemembering ==
  /\ pc = "poll"
  /\ blockedArtists' = sanitizeBlockedList(JsArray(store.blocked_artists))
  /\ blockedTracks' = sanitizeBlockedTracks(JsArray(store.blocked_tracks))
  /\ blockedPatterns' = sanitizeBlockedPatterns(JsArray(store.blocked_patterns))
  /\ blocked' = IF blocked.blocked THEN blocked
                ELSE isBlocked(artistNames, trackName, blockedArtists',
                               blockedTracks', blockedPatterns',
                               store.reverse_mode, store.block_collaborations)
  /\ evaluations' = Append(evaluations,
                       Evaluation(artistNames, trackName, blockedArtists',
                                  blockedTracks', blockedPatterns',
                                  store.reverse_mode,
                                  store.block_collaborations, blocked'))
  /\ pc' = "evaluated"
  /\ UNCHANGED <<store, artistNames, trackName, pattern, text, matched>>
  /\ UNCHANGED sanitizerVars
  /\ UNCHANGED <<oauthVars, tokenVars>>
  /\ UNCHANGED loopVars

\* pollNowPlaying: the lists are read from the store and sanitized, the
\* flags are read, and isBlocked is called on the observation
Evaluate ==
  /\ pc = "poll"
  /\ blockedArtists' = sanitizeBlockedList(JsArray(store.blocked_artists))
  /\ blockedTracks' = sanitizeBlockedTracks(JsArray(store.blocked_tracks))
  /\ blockedPatterns' = sanitizeBlockedPatterns(JsArray(store.blocked_patterns))
  /\ blocked' = isBlocked(artistNames, trackName, blockedArtists',
                          blockedTracks', blockedPatterns',
                          store.reverse_mode, store.block_collaborations)
  /\ evaluations' = Append(evaluations,
                       Evaluation(artistNames, trackName, blockedArtists',
                                  blockedTracks', blockedPatterns',
                                  store.reverse_mode,
                                  store.block_collaborations, blocked'))
  /\ pc' = "evaluated"
  /\ UNCHANGED <<store, artistNames, trackName, pattern, text, matched>>
  /\ UNCHANGED sanitizerVars
  /\ UNCHANGED <<oauthVars, tokenVars>>
  /\ UNCHANGED loopVars

EngineNext == Evaluate

EngineSpec == EngineInit /\ [][EngineNext]_vars

\* ------------------------------------------------------------------------
\* The rule engine over several polls
\* ------------------------------------------------------------------------

PurityInit ==
  /\ pc = "poll"
  /\ store \in PurityStores
  /\ artistNames \in PurityArtists
  /\ trackName \in PurityTracks
  /\ blockedArtists = <<>>
  /\ blockedTracks = <<>>
  /\ blockedPatterns = <<>>
  /\ blocked = Verdict(FALSE, "null")
  /\ evaluations = <<>>
  /\ pattern = <<>>
  /\ text = <<>>
  /\ matched = FALSE
  /\ str = <<>>
  /\ normalized = <<>>
  /\ list = JsArray(<<>>)
  /\ sanitized = <<>>
  /\ exported = NoExport
  /\ AuthAtRest
  /\ LoopAtRest

\* the next cycle of pollNowPlaying gets its observation from the provider;
\* the settings may have been edited in between
NextPoll ==
  /\ pc = "evaluated"
  /\ Len(evaluations) < MaxEvaluations
  /\ pc' = "poll"
  /\ store' \in PurityStores
  /\ artistNames' \in PurityArtists
  /\ trackName' \in PurityTracks
  /\ UNCHANGED <<blockedArtists, blockedTracks, blockedPatterns, blocked,
                 evaluations>>
  /\ UNCHANGED patternVars
  /\ UNCHANGED sanitizerVars
  /\ UNCHANGED <<oauthVars, tokenVars>>
  /\ UNCHANGED loopVars

PurityNext == Evaluate \/ NextPoll

PuritySpec == PurityInit /\ [][PurityNext]_vars

\* ------------------------------------------------------------------------
\* matchPattern on its own
\* ------------------------------------------------------------------------

PatternInit ==
  /\ pc = "match"
  /\ pattern \in MatchPatterns
  /\ text \in MatchTexts
  /\ matched = FALSE
  /\ store = DefaultStore
  /\ artistNames = JsArray(<<>>)
  /\ trackName = <<>>
  /\ blockedArtists = <<>>
  /\ blockedTracks = <<>>
  /\ blockedPatterns = <<>>
  /\ blocked = Verdict(FALSE, "null")
  /\ evaluations = <<>>
  /\ str = <<>>
  /\ normalized = <<>>
  /\ list = JsArray(<<>>)
  /\ sanitized = <<>>
  /\ exported = NoExport
  /\ AuthAtRest
  /\ LoopAtRest

MatchPattern ==
  /\ pc = "match"
  /\ matched' = matchPattern(pattern, text)
  /\ pc' = "matched"
  /\ UNCHANGED <<pattern, text>>
  /\ UNCHANGED engineVars
  /\ UNCHANGED sanitizerVars
  /\ UNCHANGED <<oauthVars, tokenVars>>
  /\ UNCHANGED loopVars

PatternNext == MatchPattern

PatternSpec == PatternInit /\ [][PatternNext]_vars

\* ------------------------------------------------------------------------
\* normalize and sanitizeBlockedList on their own
\* ------------------------------------------------------------------------

NormalizeInit ==
  /\ pc = "normalize"
  /\ str \in NormalizeInputs
  /\ normalized = <<>>
  /\ list = JsArray(<<>>)
  /\ sanitized = <<>>
  /\ exported = NoExport
  /\ AuthAtRest
  /\ store = DefaultStore
  /\ artistNames = JsArray(<<>>)
  /\ trackName = <<>>
  /\ blockedArtists = <<>>
  /\ blockedTracks = <<>>
  /\ blockedPatterns = <<>>
  /\ blocked = Verdict(FALSE, "null")
  /\ evaluations = <<>>
  /\ pattern = <<>>
  /\ text = <<>>
  /\ matched = FALSE
  /\ LoopAtRest

Normalize ==
  /\ pc = "normalize"
  /\ normalized' = normalize(str)
  /\ pc' = "normalized"
  /\ UNCHANGED <<str, list, sanitized, exported>>
  /\ UNCHANGED <<oauthVars, tokenVars>>
  /\ UNCHANGED engineVars
  /\ UNCHANGED patternVars
  /\ UNCHANGED loopVars

NormalizeNext == Normalize

NormalizeSpec == NormalizeInit /\ [][NormalizeNext]_vars

SanitizeListInit ==
  /\ pc = "sanitize"
  /\ list \in ListInputs
  /\ sanitized = <<>>
  /\ exported = NoExport
  /\ AuthAtRest
  /\ str = <<>>
  /\ normalized = <<>>
  /\ store = DefaultStore
  /\ artistNames = JsArray(<<>>)
  /\ trackName = <<>>
  /\ blockedArtists = <<>>
  /\ blockedTracks = <<>>
  /\ blockedPatterns = <<>>
  /\ blocked = Verdict(FALSE, "null")
  /\ evaluations = <<>>
  /\ pattern = <<>>
  /\ text = <<>>
  /\ matched = FALSE
  /\ LoopAtRest

SanitizeList ==
  /\ pc = "sanitize"
  /\ sanitized' = sanitizeBlockedList(list)
  /\ pc' = "sanitized"
  /\ UNCHANGED <<str, normalized, list, exported>>
  /\ UNCHANGED <<oauthVars, tokenVars>>
  /\ UNCHANGED engineVars
  /\ UNCHANGED patternVars
  /\ UNCHANGED loopVars

SanitizeListNext == SanitizeList

SanitizeListSpec == SanitizeListInit /\ [][SanitizeListNext]_vars

\* ------------------------------------------------------------------------
\* sanitizeBlockedTracks and sanitizeBlockedPatterns on their own
\* ------------------------------------------------------------------------

\* what a call of a sanitizer leaves alone
SanitizerAtRest ==
  /\ sanitized = <<>>
  /\ exported = NoExport
  /\ AuthAtRest
  /\ str = <<>>
  /\ normalized = <<>>
  /\ store = DefaultStore
  /\ artistNames = JsArray(<<>>)
  /\ trackName = <<>>
  /\ blockedArtists = <<>>
  /\ blockedTracks = <<>>
  /\ blockedPatterns = <<>>
  /\ blocked = Verdict(FALSE, "null")
  /\ evaluations = <<>>
  /\ pattern = <<>>
  /\ text = <<>>
  /\ matched = FALSE
  /\ LoopAtRest

SanitizeTracksInit ==
  /\ pc = "sanitizeTracks"
  /\ list \in TrackListInputs
  /\ SanitizerAtRest

\* one call of sanitizeBlockedTracks: it returns, or the .map step raises
SanitizeTracks ==
  /\ pc = "sanitizeTracks"
  /\ IF sanitizeBlockedTracksThrows(list)
     THEN /\ pc' = "threw"
          /\ UNCHANGED sanitized
     ELSE /\ pc' = "tracksSanitized"
          /\ sanitized' = sanitizeBlockedTracks(list)
  /\ UNCHANGED <<str, normalized, list, exported>>
  /\ UNCHANGED <<oauthVars, tokenVars>>
  /\ UNCHANGED engineVars
  /\ UNCHANGED patternVars
  /\ UNCHANGED loopVars

SanitizeTracksNext == SanitizeTracks

SanitizeTracksSpec == SanitizeTracksInit /\ [][SanitizeTracksNext]_vars

\* titles and artists that contain the separator of the key: 'c', ' C ',
\* 'b|||c' and the artists missing, '', 'a', ' A ', 'a|||b'
SeparatorTracks ==
  {<<"c">>, <<" ", "C", " ">>, <<"b", "|", "|", "|", "c">>}

SeparatorArtists ==
  {Undefined, <<>>, <<"a">>, <<" ", "A", " ">>, <<"a", "|", "|", "|", "b">>}

SeparatorEntries == [track : SeparatorTracks, artist : SeparatorArtists]

SeparatorListInputs ==
  {JsArray(l) : l \in SeqsUpTo(SeparatorEntries, MaxTrackListLen)}

\* sanitizeBlockedTracks called on rules whose fields contain '|||'
SeparatorInit ==
  /\ pc = "sanitizeTracks"
  /\ list \in SeparatorListInputs
  /\ SanitizerAtRest

SeparatorNext == SanitizeTracks

SeparatorSpec == SeparatorInit /\ [][SeparatorNext]_vars

SanitizePatternsInit ==
  /\ pc = "sanitizePatterns"
  /\ list \in PatternListInputs
  /\ SanitizerAtRest

SanitizePatterns ==
  /\ pc = "sanitizePatterns"
  /\ sanitized' = sanitizeBlockedPatterns(list)
  /\ pc' = "patternsSanitized"
  /\ UNCHANGED <<str, normalized, list, exported>>
  /\ UNCHANGED <<oauthVars, tokenVars>>
  /\ UNCHANGED engineVars
  /\ UNCHANGED patternVars
  /\ UNCHANGED loopVars

SanitizePatternsNext == SanitizePatterns

SanitizePatternsSpec == SanitizePatternsInit /\ [][SanitizePatternsNext]_vars

\* ------------------------------------------------------------------------
\* The sanitizers and isBlocked on arguments of any shape
\* ------------------------------------------------------------------------

CallInit ==
  /\ pc = "call"
  /\ artistNames \in CallArtists
  /\ trackName \in CallTracks
  /\ blockedArtists \in CallArtistRules
  /\ blockedTracks \in CallTrackRules
  /\ blockedPatterns \in CallPatternRules
  /\ store \in {[DefaultStore EXCEPT !.reverse_mode = r] : r \in BOOLEAN}
  /\ blocked = Verdict(FALSE, "null")
  /\ evaluations = <<>>
  /\ pattern = <<>>
  /\ text = <<>>
  /\ matched = FALSE
  /\ str = <<>>
  /\ normalized = <<>>
  /\ list = JsArray(<<>>)
  /\ sanitized = <<>>
  /\ exported = NoExport
  /\ AuthAtRest
  /\ LoopAtRest

\* one call of isBlocked: it returns a verdict or raises
CallIsBlocked ==
  /\ pc = "call"
  /\ IF isBlockedThrows(artistNames, trackName, blockedArtists, blockedTracks,
                        store.reverse_mode)
     THEN /\ pc' = "threw"
          /\ UNCHANGED blocked
     ELSE /\ pc' = "returned"
          /\ blocked' = isBlocked(artistNames, trackName,
                                  ArrayOrNone(blockedArtists),
                                  ArrayOrNone(blockedTracks),
                                  ArrayOrNone(blockedPatterns),
                                  store.reverse_mode,
                                  store.block_collaborations)
  /\ UNCHANGED <<store, artistNames, trackName, blockedArtists, blockedTracks,
                 blockedPatterns, evaluations>>
  /\ UNCHANGED patternVars
  /\ UNCHANGED sanitizerVars
  /\ UNCHANGED <<oauthVars, tokenVars>>
  /\ UNCHANGED loopVars

TotalityInit ==
  SanitizeListInit \/ SanitizeTracksInit \/ SanitizePatternsInit \/ CallInit

TotalityNext ==
  SanitizeList \/ SanitizeTracks \/ SanitizePatterns \/ CallIsBlocked

TotalitySpec == TotalityInit /\ [][TotalityNext]_vars

\* ------------------------------------------------------------------------
\* The polling loop of main.js
\* ------------------------------------------------------------------------

\* the steps of the clock in one run
MaxTicks == 1

\* the clicks on the tray menu and in the settings window in one run
MaxClicks == 1

\* the steps of the clock: one polling period, fast (shorter than the
\* cooldown) or slow (longer)
ClockSteps == {POLL_INTERVAL_MS, IDLE_POLL_INTERVAL_MS}

\* what the providers report as playing
ByBlockedArtist == [artists |-> <<TaylorSwift>>, track |-> SongAcoustic]

BlockedTitle == [artists |-> <<Drake>>, track |-> LoveStory]

Allowed == [artists |-> <<Drake>>, track |-> SongAcoustic]

LoopObservations == {ByBlockedArtist, BlockedTitle, Allowed}

\* the rules of the store while the loop runs
LoopStore ==
  [blocked_artists      |-> <<TaylorSwift>>,
   blocked_tracks       |-> <<TrackAnyArtist>>,
   blocked_patterns     |-> <<PatAcoustic>>,
   reverse_mode         |-> FALSE,
   block_collaborations |-> FALSE]

NoObservation == [artists |-> <<>>, track |-> <<>>]

Playing(obs) == [kind |-> "playing", obs |-> obs]

NotPlaying(kind) == [kind |-> kind, obs |-> NoObservation]

\* what spotify.getCurrentlyPlaying settles with: it throws, returns null,
\* returns a track that is not playing, or returns a playing track
SpotifyResults ==
  {NotPlaying(k) : k \in {"throws", "null", "paused"}}
    \cup {Playing(o) : o \in LoopObservations}

\* appleMusic.getCurrentlyPlaying catches every error and returns null
AppleResults == {NotPlaying("null")} \cup {Playing(o) : o \in LoopObservations}

\* error.message of a failed skipToNext
SkipError == <<"s", "k", "i", "p">>

\* the calls of pollNowPlaying that have not returned
InFlight ==
  cycles["spotify"] + cycles["apple-music"]
    + Cardinality({k \in 1..Len(skipCommands) :
                     /\ skipCommands[k].by = "poll"
                     /\ skipCommands[k].result = "pending"})

\* clearInterval(h)
ClearInterval(ts, h) == {t \in ts : t.id # h}

\* the handle setInterval returns: one that no armed timer has
FreshTimerId(ts) ==
  CHOOSE i \in 1..(Cardinality(ts) + 1) :
    /\ \A t \in ts : t.id # i
    /\ \A j \in 1..(i - 1) : \E t \in ts : t.id = j

\* setInterval(callback, ms) at the time now: the timer with handle id
Interval(id, ms) == [id |-> id, period |-> ms, due |-> now + ms]

\* updatePollingInterval that arms a timer without clearing the armed one
updatePollingIntervalWithoutClear(ts, h, playing) ==
  LET id == FreshTimerId(ts)
  IN  [timers |-> ts \cup {Interval(id, IF playing THEN POLL_INTERVAL_MS
                                        ELSE IDLE_POLL_INTERVAL_MS)},
       pollingInterval |-> id]

\* updatePollingInterval on the armed timers ts and the handle h: the new
\* timers and the new handle
updatePollingInterval(ts, h, playing) ==
  LET cleared == IF h # NoTimer THEN ClearInterval(ts, h) ELSE ts
      id      == FreshTimerId(cleared)
  IN  [timers |-> cleared \cup {Interval(id, IF playing THEN POLL_INTERVAL_MS
                                             ELSE IDLE_POLL_INTERVAL_MS)},
       pollingInterval |-> id]

\* a call of updatePollingInterval when the armed timers are ts
Rearm(ts, playing) ==
  LET u == updatePollingInterval(ts, pollingInterval, playing)
  IN  /\ timers' = u.timers
      /\ pollingInterval' = u.pollingInterval

\* no call of updatePollingInterval
KeepTimer(ts) ==
  /\ timers' = ts
  /\ UNCHANGED pollingInterval

\* incrementStats that counts the total and no reason
incrementStatsTotalOnly(stats, reason) == [stats EXCEPT !.total = @ + 1]

\* incrementStats on one set of counters
incrementStats(stats, reason) ==
  LET counted == [stats EXCEPT !.total = @ + 1]
  IN  IF reason \in {"artist", "track", "pattern", "reverse"}
      THEN [counted EXCEPT ![reason] = @ + 1]
      ELSE counted

\* the entries history keeps
MAX_HISTORY == 10

\* artists.join(', ')
RECURSIVE join(_)
join(artists) ==
  IF artists = <<>> THEN <<>>
  ELSE IF Len(artists) = 1 THEN artists[1]
  ELSE artists[1] \o <<",", " ">> \o join(Tail(artists))

\* Array.isArray(artist) ? artist.join(', ') : artist
ArtistStr(artist) == IF artist.isArray THEN join(artist.val) ELSE artist.val

\* track || ''
TrackOrEmpty(track) == IF track \in {Null, Undefined} THEN <<>> ELSE track

\* crypto.randomUUID(): an id that no entry of the history h has
FreshEntryId(h) ==
  CHOOSE i \in 1..(Len(h) + 1) : \A k \in 1..Len(h) : h[k].id # i

\* updateNowPlayingAndHistory that keeps every entry
UnshiftNeverDropping(h, entry) == <<entry>> \o h

\* history.unshift(entry); if (history.length > MAX_HISTORY) history.pop()
Unshift(h, entry) ==
  LET longer == <<entry>> \o h
  IN  IF Len(longer) > MAX_HISTORY THEN SubSeq(longer, 1, Len(longer) - 1)
      ELSE longer

\* nowPlaying has the artist, title and source that a cycle hands to
\* updateNowPlayingAndHistory
SameNowPlaying(np, source, artist, track) ==
  /\ np # NoNowPlaying
  /\ np.artist = ArtistStr(artist)
  /\ np.track = track
  /\ np.source = source

\* updateNowPlayingAndHistory(source, artist, track) at the time t on
\* nowPlaying np and history h: the new nowPlaying and the new history
updateNowPlayingAndHistory(np, h, source, artist, track, t) ==
  IF SameNowPlaying(np, source, artist, track)
  THEN [nowPlaying |-> np, history |-> h]
  ELSE [nowPlaying |-> [source |-> source, artist |-> ArtistStr(artist),
                        track |-> TrackOrEmpty(track)],
        history |-> Unshift(h, [id |-> FreshEntryId(h), ts |-> t,
                                source |-> source,
                                artist |-> ArtistStr(artist),
                                track |-> TrackOrEmpty(track),
                                reasonBlocked |-> "undefined"])]

\* handleSkip, lines 465-475: the newest entry gets the reason when it has
\* the artist and the title of nowPlaying
MarkLatest(h, np, reason) ==
  IF /\ Len(h) > 0
     /\ np # NoNowPlaying
     /\ h[1].artist = np.artist
     /\ h[1].track = np.track
  THEN [h EXCEPT ![1].reasonBlocked = reason]
  ELSE h

\* what no handler of the loop writes
LoopFrame ==
  /\ UNCHANGED <<pc, store, artistNames, trackName, blockedArtists,
                 blockedTracks, blockedPatterns, blocked, evaluations,
                 pattern, text, matched>>
  /\ UNCHANGED sanitizerVars
  /\ UNCHANGED <<oauthVars, tokenVars>>
  /\ UNCHANGED <<spotifyConnected, platform>>

LoopInit ==
  /\ pc = "loop"
  /\ store = LoopStore
  /\ artistNames = JsArray(<<>>)
  /\ trackName = <<>>
  /\ blockedArtists = <<>>
  /\ blockedTracks = <<>>
  /\ blockedPatterns = <<>>
  /\ blocked = Verdict(FALSE, "null")
  /\ evaluations = <<>>
  /\ pattern = <<>>
  /\ text = <<>>
  /\ matched = FALSE
  /\ str = <<>>
  /\ normalized = <<>>
  /\ list = JsArray(<<>>)
  /\ sanitized = <<>>
  /\ exported = NoExport
  /\ AuthAtRest
  /\ app = "loading"
  /\ enabled = TRUE
  /\ spotifyConnected \in BOOLEAN
  /\ platform \in {"darwin", "win32"}
  /\ isMusicPlaying = FALSE
  /\ pollingInterval = NoTimer
  /\ timers = {}
  /\ now = StartTime
  /\ lastSkipTime = 0
  /\ cycles = NoCycles
  /\ skipCommands = <<>>
  /\ currentStatus = IdleStatus
  /\ sessionStats = NoStats
  /\ totalStats = NoStats
  /\ errorTimeouts = 0
  /\ clicks = 0
  /\ ticks = 0
  /\ nowPlaying = NoNowPlaying
  /\ history = <<>>
  /\ last = NoEvent

\* pollNowPlaying, lines 608-620: no source is active
IdleBranch(ts, rearm) ==
  /\ isMusicPlaying' = FALSE
  /\ IF isMusicPlaying \/ rearm THEN Rearm(ts, FALSE) ELSE KeepTimer(ts)
  /\ currentStatus' = IdleStatus

\* pollNowPlaying up to its first await, lines 490-510 and 556-560, when
\* the armed timers are ts; rearm tells that the caller runs
\* updatePollingInterval next, as startPolling does
PollBegin(ts, rearm) ==
  /\ IF ~enabled
     THEN /\ isMusicPlaying' = FALSE
          /\ IF isMusicPlaying \/ rearm THEN Rearm(ts, FALSE) ELSE KeepTimer(ts)
          /\ currentStatus' = [currentStatus EXCEPT !.source = "idle",
                                                    !.artist = NonArray(Null),
                                                    !.track = Null]
          /\ UNCHANGED cycles
          /\ last' = Event("pollNowPlaying", "none", "disabled", "none")
     ELSE IF spotifyConnected
     THEN /\ cycles' = [cycles EXCEPT !["spotify"] = @ + 1]
          /\ IF rearm THEN Rearm(ts, isMusicPlaying) ELSE KeepTimer(ts)
          /\ UNCHANGED <<isMusicPlaying, currentStatus>>
          /\ last' = Event("pollNowPlaying", "none", "spotify", "none")
     ELSE IF platform = "darwin"
     THEN /\ cycles' = [cycles EXCEPT !["apple-music"] = @ + 1]
          /\ IF rearm THEN Rearm(ts, isMusicPlaying) ELSE KeepTimer(ts)
          /\ UNCHANGED <<isMusicPlaying, currentStatus>>
          /\ last' = Event("pollNowPlaying", "none", "apple-music", "none")
     ELSE /\ IdleBranch(ts, rearm)
          /\ UNCHANGED cycles
          /\ last' = Event("pollNowPlaying", "none", "idle", "none")
  /\ UNCHANGED <<enabled, now, lastSkipTime, skipCommands, sessionStats,
                 totalStats, errorTimeouts, clicks>>

\* app.whenReady: startPolling
StartPolling ==
  /\ app = "loading"
  /\ app' = "running"
  /\ PollBegin(timers, TRUE)
  /\ UNCHANGED ticks
  /\ UNCHANGED <<nowPlaying, history>>
  /\ LoopFrame

\* an armed timer is due and runs its callback, pollNowPlaying; its next
\* run is one period later
TimerFires ==
  /\ \E t \in timers :
       /\ now >= t.due
       /\ PollBegin((timers \ {t}) \cup {[t EXCEPT !.due = now + t.period]},
                    FALSE)
  /\ UNCHANGED app
  /\ UNCHANGED ticks
  /\ UNCHANGED <<nowPlaying, history>>
  /\ LoopFrame

\* handleSkip up to its await, lines 445-456
HandleSkipBegin(source, reason) ==
  IF now - lastSkipTime < SKIP_COOLDOWN_MS
  THEN /\ UNCHANGED skipCommands
       /\ last' = Event(source, "playing", "done", "cooldown")
  ELSE /\ skipCommands' = Append(skipCommands,
                            [by |-> "poll", source |-> source,
                             reason |-> reason, at |-> now,
                             result |-> "pending"])
       /\ last' = Event(source, "playing", "skip", "issued")

\* the playing branch without its return: the cycle goes on to the next
\* provider
PlayingBranchFallsThrough(source, obs) ==
  /\ isMusicPlaying' = TRUE
  /\ IF ~isMusicPlaying THEN Rearm(timers, TRUE) ELSE KeepTimer(timers)
  /\ currentStatus' =
       [source |-> source,
        artist |-> IF source = "spotify" THEN JsArray(obs.artists)
                   ELSE NonArray(obs.artists[1]),
        track  |-> obs.track,
        error  |-> Null]
  /\ cycles' = [cycles EXCEPT ![source] = @ - 1, !["apple-music"] = @ + 1]
  /\ UNCHANGED skipCommands
  /\ UNCHANGED <<nowPlaying, history>>
  /\ last' = Event(source, "playing", "apple-music", "none")

\* pollNowPlaying, lines 512-548 and 562-598: the provider reports obs as
\* playing; Spotify gives the artists as an array, Apple Music one artist
PlayingBranch(source, obs) ==
  LET names   == IF source = "spotify" THEN JsArray(obs.artists)
                 ELSE JsArray(<<obs.artists[1]>>)
      verdict == isBlocked(names, obs.track,
                           sanitizeBlockedList(JsArray(store.blocked_artists)),
                           sanitizeBlockedTracks(JsArray(store.blocked_tracks)),
                           sanitizeBlockedPatterns(JsArray(store.blocked_patterns)),
                           store.reverse_mode, store.block_collaborations)
      updated == updateNowPlayingAndHistory(
                   nowPlaying, history, source,
                   IF source = "spotify" THEN JsArray(obs.artists)
                   ELSE NonArray(obs.artists[1]),
                   obs.track, now)
  IN  /\ isMusicPlaying' = TRUE
      /\ IF ~isMusicPlaying THEN Rearm(timers, TRUE) ELSE KeepTimer(timers)
      /\ currentStatus' =
           [source |-> source,
            artist |-> IF source = "spotify" THEN JsArray(obs.artists)
                       ELSE NonArray(obs.artists[1]),
            track  |-> obs.track,
            error  |-> Null]
      /\ nowPlaying' = updated.nowPlaying
      /\ history' = updated.history
      /\ cycles' = [cycles EXCEPT ![source] = @ - 1]
      /\ IF verdict.blocked
         THEN HandleSkipBegin(source, verdict.reason)
         ELSE /\ UNCHANGED skipCommands
              /\ last' = Event(source, "playing", "done", "none")

\* a Spotify failure that reaches the outer catch of pollNowPlaying
SpotifyNotPlayingEndsCycle(result) ==
  /\ cycles' = [cycles EXCEPT !["spotify"] = @ - 1]
  /\ currentStatus' = [currentStatus EXCEPT !.error = SkipError]
  /\ last' = Event("spotify", result, "done", "none")
  /\ UNCHANGED <<isMusicPlaying, timers, pollingInterval>>

\* pollNowPlaying, lines 549-560 and 607-620: Spotify threw or reported
\* nothing playing; the cycle goes on to Apple Music on macOS and to the
\* idle branch elsewhere
SpotifyNotPlaying(result) ==
  IF platform = "darwin"
  THEN /\ cycles' = [cycles EXCEPT !["spotify"] = @ - 1,
                                   !["apple-music"] = @ + 1]
       /\ last' = Event("spotify", result, "apple-music", "none")
       /\ UNCHANGED <<isMusicPlaying, timers, pollingInterval, currentStatus>>
  ELSE /\ IdleBranch(timers, FALSE)
       /\ cycles' = [cycles EXCEPT !["spotify"] = @ - 1]
       /\ last' = Event("spotify", result, "idle", "none")

\* spotify.getCurrentlyPlaying of a cycle settles
SpotifyResolves(result) ==
  /\ cycles["spotify"] > 0
  /\ IF result.kind = "playing"
     THEN PlayingBranch("spotify", result.obs)
     ELSE /\ SpotifyNotPlaying(result.kind)
          /\ UNCHANGED <<skipCommands, nowPlaying, history>>
  /\ UNCHANGED <<app, enabled, now, lastSkipTime, sessionStats, totalStats,
                 errorTimeouts, clicks>>
  /\ UNCHANGED ticks
  /\ LoopFrame

\* appleMusic.getCurrentlyPlaying of a cycle settles
AppleResolves(result) ==
  /\ cycles["apple-music"] > 0
  /\ IF result.kind = "playing"
     THEN PlayingBranch("apple-music", result.obs)
     ELSE /\ IdleBranch(timers, FALSE)
          /\ cycles' = [cycles EXCEPT !["apple-music"] = @ - 1]
          /\ last' = Event("apple-music", result.kind, "idle", "none")
          /\ UNCHANGED <<skipCommands, nowPlaying, history>>
  /\ UNCHANGED <<app, enabled, now, lastSkipTime, sessionStats, totalStats,
                 errorTimeouts, clicks>>
  /\ UNCHANGED ticks
  /\ LoopFrame

\* handleSkip after its await that counts the skip whether or not the
\* command succeeded
HandleSkipEndCountingFailures(k, ok) ==
  /\ skipCommands[k].by = "poll"
  /\ skipCommands[k].result = "pending"
  /\ skipCommands' = [skipCommands EXCEPT
                        ![k].result = IF ok THEN "ok" ELSE "failed"]
  /\ lastSkipTime' = skipCommands[k].at
  /\ sessionStats' = incrementStats(sessionStats, skipCommands[k].reason)
  /\ totalStats' = incrementStats(totalStats, skipCommands[k].reason)
  /\ history' = MarkLatest(history, nowPlaying, skipCommands[k].reason)
  /\ UNCHANGED <<currentStatus, errorTimeouts>>
  /\ last' = NoEvent
  /\ UNCHANGED <<app, enabled, isMusicPlaying, pollingInterval, timers, now,
                 cycles, clicks, nowPlaying>>
  /\ UNCHANGED ticks
  /\ LoopFrame

\* handleSkip after its await that sends the command once more when it
\* failed
HandleSkipEndRetrying(k, ok) ==
  /\ skipCommands[k].by = "poll"
  /\ skipCommands[k].result = "pending"
  /\ IF ok
     THEN /\ skipCommands' = [skipCommands EXCEPT ![k].result = "ok"]
          /\ lastSkipTime' = skipCommands[k].at
          /\ sessionStats' = incrementStats(sessionStats, skipCommands[k].reason)
          /\ totalStats' = incrementStats(totalStats, skipCommands[k].reason)
          /\ history' = MarkLatest(history, nowPlaying, skipCommands[k].reason)
          /\ UNCHANGED <<currentStatus, errorTimeouts>>
     ELSE /\ skipCommands' =
               Append([skipCommands EXCEPT ![k].result = "failed"],
                      [skipCommands[k] EXCEPT !.result = "retried"])
          /\ currentStatus' = [currentStatus EXCEPT !.error = SkipError]
          /\ errorTimeouts' = errorTimeouts + 1
          /\ UNCHANGED <<lastSkipTime, sessionStats, totalStats, history>>
  /\ last' = NoEvent
  /\ UNCHANGED <<app, enabled, isMusicPlaying, pollingInterval, timers, now,
                 cycles, clicks, nowPlaying>>
  /\ UNCHANGED ticks
  /\ LoopFrame

\* handleSkip after its await, lines 457-484: the skip command k of a poll
\* cycle has succeeded or failed, and pollNowPlaying returns
HandleSkipEnd(k, ok) ==
  /\ skipCommands[k].by = "poll"
  /\ skipCommands[k].result = "pending"
  /\ skipCommands' = [skipCommands EXCEPT
                        ![k].result = IF ok THEN "ok" ELSE "failed"]
  /\ IF ok
     THEN /\ lastSkipTime' = skipCommands[k].at
          /\ sessionStats' = incrementStats(sessionStats, skipCommands[k].reason)
          /\ totalStats' = incrementStats(totalStats, skipCommands[k].reason)
          /\ history' = MarkLatest(history, nowPlaying, skipCommands[k].reason)
          /\ UNCHANGED <<currentStatus, errorTimeouts>>
     ELSE /\ currentStatus' = [currentStatus EXCEPT !.error = SkipError]
          /\ errorTimeouts' = errorTimeouts + 1
          /\ UNCHANGED <<lastSkipTime, sessionStats, totalStats, history>>
  /\ last' = NoEvent
  /\ UNCHANGED <<app, enabled, isMusicPlaying, pollingInterval, timers, now,
                 cycles, clicks, nowPlaying>>
  /\ UNCHANGED ticks
  /\ LoopFrame

\* the timeout handleSkip sets after a failed skip
ErrorTimeout ==
  /\ errorTimeouts > 0
  /\ errorTimeouts' = errorTimeouts - 1
  /\ currentStatus' = [currentStatus EXCEPT !.error = Null]
  /\ last' = NoEvent
  /\ UNCHANGED <<app, enabled, isMusicPlaying, pollingInterval, timers, now,
                 lastSkipTime, cycles, skipCommands, sessionStats,
                 totalStats, clicks>>
  /\ UNCHANGED ticks
  /\ UNCHANGED <<nowPlaying, history>>
  /\ LoopFrame

\* the tray's Skip Track item: skipTrackFromTray up to its await, lines
\* 284-300; the menu is rebuilt when a cycle shows a new track and every
\* 2000 ms, and the handler tests the source itself
SkipTrackFromTray ==
  /\ app = "running"
  /\ clicks < MaxClicks
  /\ clicks' = clicks + 1
  /\ IF currentStatus.source = "idle"
     THEN /\ UNCHANGED skipCommands
          /\ last' = Event("skipTrackFromTray", "none", "none", "tray-idle")
     ELSE IF now - lastSkipTime < SKIP_COOLDOWN_MS
     THEN /\ UNCHANGED skipCommands
          /\ last' = Event("skipTrackFromTray", "none", "none", "tray-cooldown")
     ELSE /\ skipCommands' =
               Append(skipCommands,
                      [by |-> "tray", source |-> currentStatus.source,
                       reason |-> "null", at |-> now, result |-> "pending"])
          /\ last' = Event("skipTrackFromTray", "none", "none", "tray-sent")
  /\ UNCHANGED <<app, enabled, isMusicPlaying, pollingInterval, timers, now,
                 lastSkipTime, cycles, currentStatus, sessionStats,
                 totalStats, errorTimeouts>>
  /\ UNCHANGED ticks
  /\ UNCHANGED <<nowPlaying, history>>
  /\ LoopFrame

\* skipTrackFromTray after its await that counts the manual skip as
\* handleSkip counts an automatic one
TraySkipEndCountingStats(k, ok) ==
  /\ skipCommands[k].by = "tray"
  /\ skipCommands[k].result = "pending"
  /\ skipCommands' = [skipCommands EXCEPT
                        ![k].result = IF ok THEN "ok" ELSE "failed"]
  /\ lastSkipTime' = IF ok THEN skipCommands[k].at ELSE lastSkipTime
  /\ sessionStats' = IF ok THEN incrementStats(sessionStats, "null")
                     ELSE sessionStats
  /\ totalStats' = IF ok THEN incrementStats(totalStats, "null")
                   ELSE totalStats
  /\ last' = Event("skipTrackFromTray", "none", "none",
                   IF ok THEN "tray-ok" ELSE "tray-failed")
  /\ UNCHANGED <<app, enabled, isMusicPlaying, pollingInterval, timers, now,
                 cycles, currentStatus, errorTimeouts, clicks>>
  /\ UNCHANGED ticks
  /\ UNCHANGED <<nowPlaying, history>>
  /\ LoopFrame

\* skipTrackFromTray after its await, lines 302-307
TraySkipEnd(k, ok) ==
  /\ skipCommands[k].by = "tray"
  /\ skipCommands[k].result = "pending"
  /\ skipCommands' = [skipCommands EXCEPT
                        ![k].result = IF ok THEN "ok" ELSE "failed"]
  /\ lastSkipTime' = IF ok THEN skipCommands[k].at ELSE lastSkipTime
  /\ last' = Event("skipTrackFromTray", "none", "none",
                   IF ok THEN "tray-ok" ELSE "tray-failed")
  /\ UNCHANGED <<app, enabled, isMusicPlaying, pollingInterval, timers, now,
                 cycles, currentStatus, sessionStats, totalStats,
                 errorTimeouts, clicks>>
  /\ UNCHANGED ticks
  /\ UNCHANGED <<nowPlaying, history>>
  /\ LoopFrame

\* the tray's ENABLED / DISABLED item
ToggleEnabled ==
  /\ app = "running"
  /\ clicks < MaxClicks
  /\ clicks' = clicks + 1
  /\ enabled' = ~enabled
  /\ last' = NoEvent
  /\ UNCHANGED <<app, isMusicPlaying, pollingInterval, timers, now,
                 lastSkipTime, cycles, skipCommands, currentStatus,
                 sessionStats, totalStats, errorTimeouts>>
  /\ UNCHANGED ticks
  /\ UNCHANGED <<nowPlaying, history>>
  /\ LoopFrame

\* time passes
Tick ==
  /\ ticks < MaxTicks
  /\ ticks' = ticks + 1
  /\ \E step \in ClockSteps : now' = now + step
  /\ last' = NoEvent
  /\ UNCHANGED <<app, enabled, isMusicPlaying, pollingInterval, timers,
                 lastSkipTime, cycles, skipCommands, currentStatus,
                 sessionStats, totalStats, errorTimeouts, clicks>>
  /\ UNCHANGED <<nowPlaying, history>>
  /\ LoopFrame

\* stopPolling on the armed timers ts and the handle h: the new timers and
\* the new handle
stopPolling(ts, h) ==
  IF h # NoTimer
  THEN [timers |-> ClearInterval(ts, h), pollingInterval |-> NoTimer]
  ELSE [timers |-> ts, pollingInterval |-> h]

\* app.on('before-quit'): stopPolling
BeforeQuit ==
  /\ app = "running"
  /\ app' = "quitting"
  /\ timers' = stopPolling(timers, pollingInterval).timers
  /\ pollingInterval' = stopPolling(timers, pollingInterval).pollingInterval
  /\ last' = NoEvent
  /\ UNCHANGED <<enabled, isMusicPlaying, now, lastSkipTime, cycles,
                 skipCommands, currentStatus, sessionStats, totalStats,
                 errorTimeouts, clicks>>
  /\ UNCHANGED ticks
  /\ UNCHANGED <<nowPlaying, history>>
  /\ LoopFrame

\* ipcMain.handle('stats:reset-session')
StatsResetSession ==
  /\ app = "running"
  /\ clicks < MaxClicks
  /\ clicks' = clicks + 1
  /\ sessionStats' = NoStats
  /\ last' = Event("stats:reset-session", "none", "none", "none")
  /\ UNCHANGED <<app, enabled, isMusicPlaying, pollingInterval, timers, now,
                 lastSkipTime, cycles, skipCommands, currentStatus,
                 totalStats, errorTimeouts>>
  /\ UNCHANGED ticks
  /\ UNCHANGED <<nowPlaying, history>>
  /\ LoopFrame

\* ipcMain.handle('stats:reset-total')
StatsResetTotal ==
  /\ app = "running"
  /\ clicks < MaxClicks
  /\ clicks' = clicks + 1
  /\ totalStats' = NoStats
  /\ last' = Event("stats:reset-total", "none", "none", "none")
  /\ UNCHANGED <<app, enabled, isMusicPlaying, pollingInterval, timers, now,
                 lastSkipTime, cycles, skipCommands, currentStatus,
                 sessionStats, errorTimeouts>>
  /\ UNCHANGED ticks
  /\ UNCHANGED <<nowPlaying, history>>
  /\ LoopFrame

LoopNext ==
  \/ StartPolling
  \/ TimerFires
  \/ \E result \in SpotifyResults : SpotifyResolves(result)
  \/ \E result \in AppleResults : AppleResolves(result)
  \/ \E k \in 1..Len(skipCommands) : \E ok \in BOOLEAN : HandleSkipEnd(k, ok)
  \/ ErrorTimeout
  \/ SkipTrackFromTray
  \/ \E k \in 1..Len(skipCommands) : \E ok \in BOOLEAN : TraySkipEnd(k, ok)
  \/ ToggleEnabled
  \/ StatsResetSession
  \/ StatsResetTotal
  \/ Tick
  \/ BeforeQuit

LoopSpec == LoopInit /\ [][LoopNext]_vars

\* ------------------------------------------------------------------------
\* The running program: the loop, the tray's block items and the history
\* handlers
\* ------------------------------------------------------------------------

\* 'Future'
Future == <<"F", "u", "t", "u", "r", "e">>

\* a title by two artists, as Spotify reports it
Duet == [artists |-> <<Drake, Future>>, track |-> SongAcoustic]

\* what the providers report as playing during the session
SessionObservations == {ByBlockedArtist, BlockedTitle, Allowed, Duet}

SessionSpotifyResults ==
  {NotPlaying("null")} \cup {Playing(o) : o \in SessionObservations}

SessionAppleResults ==
  {NotPlaying("null")} \cup {Playing(o) : o \in SessionObservations}

\* the provider the loop asks first
ActiveSource == IF spotifyConnected THEN "spotify" ELSE "apple-music"

\* the time at which the session is looked at: MAX_HISTORY polling periods
\* after the start
SessionTime == StartTime + MAX_HISTORY * POLL_INTERVAL_MS

\* the k-th newest title of a session that has seen n titles, two titles
\* in turn that no rule of DefaultStore blocks, one polling period apart
PastEntry(n, k, source) ==
  LET obs == IF k % 2 = 1 THEN Allowed ELSE BlockedTitle
  IN  [id |-> n - k + 1, ts |-> SessionTime - k * POLL_INTERVAL_MS,
       source |-> source,
       artist |-> ArtistStr(IF source = "spotify" THEN JsArray(obs.artists)
                            ELSE NonArray(obs.artists[1])),
       track |-> TrackOrEmpty(obs.track),
       reasonBlocked |-> "undefined"]

PastHistory(n, source) == [k \in 1..n |-> PastEntry(n, k, source)]

\* the program after MAX_HISTORY - 1 titles were played under the default
\* settings, none of them blocked: the loop polls fast and its timer is due
SessionInit ==
  /\ pc = "loop"
  /\ store = DefaultStore
  /\ artistNames = JsArray(<<>>)
  /\ trackName = <<>>
  /\ blockedArtists = <<>>
  /\ blockedTracks = <<>>
  /\ blockedPatterns = <<>>
  /\ blocked = Verdict(FALSE, "null")
  /\ evaluations = <<>>
  /\ pattern = <<>>
  /\ text = <<>>
  /\ matched = FALSE
  /\ str = <<>>
  /\ normalized = <<>>
  /\ list = JsArray(<<>>)
  /\ sanitized = <<>>
  /\ exported = NoExport
  /\ AuthAtRest
  /\ app = "running"
  /\ enabled = TRUE
  /\ spotifyConnected \in BOOLEAN
  /\ platform = "darwin"
  /\ isMusicPlaying = TRUE
  /\ pollingInterval = 1
  /\ timers = {[id |-> 1, period |-> POLL_INTERVAL_MS, due |-> SessionTime]}
  /\ now = SessionTime
  /\ lastSkipTime = 0
  /\ cycles = NoCycles
  /\ skipCommands = <<>>
  /\ currentStatus =
       [source |-> ActiveSource,
        artist |-> IF spotifyConnected THEN JsArray(Allowed.artists)
                   ELSE NonArray(Allowed.artists[1]),
        track  |-> Allowed.track,
        error  |-> Null]
  /\ sessionStats = NoStats
  /\ totalStats = NoStats
  /\ errorTimeouts = 0
  /\ clicks = 0
  /\ ticks = 0
  /\ history = PastHistory(MAX_HISTORY - 1, ActiveSource)
  /\ nowPlaying = [source |-> ActiveSource, artist |-> history[1].artist,
                   track |-> history[1].track]
  /\ last = NoEvent

\* what the handlers of the tray's block items and of the history leave
\* alone
SettingsFrame ==
  /\ UNCHANGED <<pc, artistNames, trackName, blockedArtists, blockedTracks,
                 blockedPatterns, blocked, evaluations, pattern, text,
                 matched>>
  /\ UNCHANGED sanitizerVars
  /\ UNCHANGED <<oauthVars, tokenVars>>
  /\ UNCHANGED <<app, enabled, spotifyConnected, platform, isMusicPlaying,
                 pollingInterval, timers, now, lastSkipTime, cycles,
                 skipCommands, currentStatus, sessionStats, totalStats,
                 errorTimeouts, ticks, nowPlaying>>

\* the test 'already blocked' of blockCurrentSongFromTray and of
\* history:block-track
AlreadyBlockedTrack(rules, rule) ==
  \E i \in 1..Len(rules) :
    /\ rules[i].track = rule.track
    /\ \/ rules[i].artist = Undefined
       \/ rule.artist # Undefined /\ rules[i].artist = rule.artist

\* the rule that blockCurrentSongFromTray and history:block-track make of
\* an artist string and a title
TrackRuleOf(artist, track) ==
  [track  |-> normalize(track),
   artist |-> IF Truthy(artist) THEN normalize(artist) ELSE Undefined]

\* the rest of blockCurrentSongFromTray and of history:block-track: the
\* rule is added to the stored track rules unless it is there
BlockTrack(handler, artist, track) ==
  LET rules == sanitizeBlockedTracks(JsArray(store.blocked_tracks))
      rule  == TrackRuleOf(artist, track)
  IN  IF AlreadyBlockedTrack(rules, rule)
      THEN /\ UNCHANGED store
           /\ last' = Event(handler, "none", "already", "none")
      ELSE /\ store' = [store EXCEPT !.blocked_tracks =
                          sanitizeBlockedTracks(JsArray(Append(rules, rule)))]
           /\ last' = Event(handler, "none", "added", "none")

\* the rest of blockCurrentArtistFromTray and of history:block-artist: the
\* artist string is added to the stored artist rules unless it is there
BlockArtist(handler, artistName) ==
  LET rules == sanitizeBlockedList(JsArray(store.blocked_artists))
  IN  IF \E i \in 1..Len(rules) : normalize(rules[i]) = normalize(artistName)
      THEN /\ UNCHANGED store
           /\ last' = Event(handler, "none", "already", "none")
      ELSE /\ store' = [store EXCEPT !.blocked_artists =
                          sanitizeBlockedList(JsArray(Append(rules, artistName)))]
           /\ last' = Event(handler, "none", "added", "none")

\* the tray's Block Current Song item: blockCurrentSongFromTray
BlockCurrentSongFromTray ==
  /\ app = "running"
  /\ clicks < MaxClicks
  /\ clicks' = clicks + 1
  /\ IF nowPlaying = NoNowPlaying \/ ~Truthy(nowPlaying.track)
     THEN /\ UNCHANGED store
          /\ last' = Event("blockCurrentSongFromTray", "none", "none", "none")
     ELSE BlockTrack("blockCurrentSongFromTray", nowPlaying.artist,
                     nowPlaying.track)
  /\ UNCHANGED history
  /\ SettingsFrame

\* the tray's Block Current Artist item: blockCurrentArtistFromTray;
\* nowPlaying.artist is a string
BlockCurrentArtistFromTray ==
  /\ app = "running"
  /\ clicks < MaxClicks
  /\ clicks' = clicks + 1
  /\ IF nowPlaying = NoNowPlaying \/ ~Truthy(nowPlaying.artist)
     THEN /\ UNCHANGED store
          /\ last' = Event("blockCurrentArtistFromTray", "none", "none", "none")
     ELSE BlockArtist("blockCurrentArtistFromTray", nowPlaying.artist)
  /\ UNCHANGED history
  /\ SettingsFrame

\* the entries of the history h with the id
EntriesWithId(h, id) == {k \in 1..Len(h) : h[k].id = id}

\* history.find(e => e.id === id), when there is one
Find(h, id) == h[CHOOSE k \in EntriesWithId(h, id) : TRUE]

\* ipcMain.handle('history:block-track')
HistoryBlockTrack(id) ==
  /\ app = "running"
  /\ clicks < MaxClicks
  /\ clicks' = clicks + 1
  /\ IF EntriesWithId(history, id) = {}
     THEN /\ UNCHANGED store
          /\ last' = Event("history:block-track", "none", "none", "none")
     ELSE BlockTrack("history:block-track", Find(history, id).artist,
                     Find(history, id).track)
  /\ UNCHANGED history
  /\ SettingsFrame

\* ipcMain.handle('history:block-artist')
HistoryBlockArtist(id) ==
  /\ app = "running"
  /\ clicks < MaxClicks
  /\ clicks' = clicks + 1
  /\ IF EntriesWithId(history, id) = {} \/ ~Truthy(Find(history, id).artist)
     THEN /\ UNCHANGED store
          /\ last' = Event("history:block-artist", "none", "none", "none")
     ELSE BlockArtist("history:block-artist", Find(history, id).artist)
  /\ UNCHANGED history
  /\ SettingsFrame

\* ipcMain.handle('history:clear')
HistoryClear ==
  /\ app = "running"
  /\ clicks < MaxClicks
  /\ clicks' = clicks + 1
  /\ history' = <<>>
  /\ last' = Event("history:clear", "none", "none", "none")
  /\ UNCHANGED store
  /\ SettingsFrame

SessionNext ==
  \/ TimerFires
  \/ \E result \in SessionSpotifyResults : SpotifyResolves(result)
  \/ \E result \in SessionAppleResults : AppleResolves(result)
  \/ \E k \in 1..Len(skipCommands) : \E ok \in BOOLEAN : HandleSkipEnd(k, ok)
  \/ ErrorTimeout
  \/ Tick
  \/ BlockCurrentSongFromTray
  \/ BlockCurrentArtistFromTray
  \/ \E id \in 1..(MAX_HISTORY + 1) : HistoryBlockTrack(id)
  \/ \E id \in 1..(MAX_HISTORY + 1) : HistoryBlockArtist(id)
  \/ HistoryClear

SessionSpec == SessionInit /\ [][SessionNext]_vars

\* ------------------------------------------------------------------------
\* The settings window: the setters of the lists, export and import, and
\* the poll that reads the store afterwards
\* ------------------------------------------------------------------------

\* the object blocklist:export returns for the store st
blocklistExport(st) ==
  [artists |-> JsArray(st.blocked_artists),
   tracks |-> JsArray(st.blocked_tracks),
   patterns |-> JsArray(st.blocked_patterns),
   blockCollaborations |-> Flag(st.block_collaborations),
   reverseMode |-> Flag(st.reverse_mode),
   version |-> "1.0"]

\* import data: the value and its typeof
ImportData(type, val) == [typeof |-> type, val |-> val]

\* a hand-written import file that names the artists only
ArtistsOnly ==
  [NoExport EXCEPT !.artists = JsArray(<<Drake, DrakeVariant>>)]

\* blocklist:import that reads the collaborations flag from reverseMode
blocklistImportMixingFlags(st, data) ==
  IF data.typeof # "object" THEN [store |-> st, success |-> FALSE]
  ELSE LET d == data.val
       IN  [store |->
              [blocked_artists |->
                 IF d.artists.isArray THEN sanitizeBlockedList(d.artists)
                 ELSE st.blocked_artists,
               blocked_tracks |->
                 IF d.tracks.isArray THEN sanitizeBlockedTracks(d.tracks)
                 ELSE st.blocked_tracks,
               blocked_patterns |->
                 IF d.patterns.isArray THEN sanitizeBlockedPatterns(d.patterns)
                 ELSE st.blocked_patterns,
               block_collaborations |->
                 IF d.reverseMode.isBoolean THEN d.reverseMode.val
                 ELSE st.block_collaborations,
               reverse_mode |->
                 IF d.reverseMode.isBoolean THEN d.reverseMode.val
                 ELSE st.reverse_mode],
            success |-> TRUE]

\* blocklist:import of data into the store st: the new store and the
\* success field of the result
blocklistImport(st, data) ==
  IF data.typeof # "object" THEN [store |-> st, success |-> FALSE]
  ELSE LET d == data.val
       IN  [store |->
              [blocked_artists |->
                 IF d.artists.isArray THEN sanitizeBlockedList(d.artists)
                 ELSE st.blocked_artists,
               blocked_tracks |->
                 IF d.tracks.isArray THEN sanitizeBlockedTracks(d.tracks)
                 ELSE st.blocked_tracks,
               blocked_patterns |->
                 IF d.patterns.isArray THEN sanitizeBlockedPatterns(d.patterns)
                 ELSE st.blocked_patterns,
               block_collaborations |->
                 IF d.blockCollaborations.isBoolean
                 THEN d.blockCollaborations.val
                 ELSE st.block_collaborations,
               reverse_mode |->
                 IF d.reverseMode.isBoolean THEN d.reverseMode.val
                 ELSE st.reverse_mode],
            success |-> TRUE]

\* the settings the window finds: the defaults, and edited ones
SettingsStores == PurityStores \cup {DefaultStore}

SettingsInit ==
  /\ pc = "settings"
  /\ store \in SettingsStores
  /\ artistNames = JsArray(<<TaylorSwift>>)
  /\ trackName \in PurityTracks
  /\ blockedArtists = <<>>
  /\ blockedTracks = <<>>
  /\ blockedPatterns = <<>>
  /\ blocked = Verdict(FALSE, "null")
  /\ evaluations = <<>>
  /\ pattern = <<>>
  /\ text = <<>>
  /\ matched = FALSE
  /\ str = <<>>
  /\ normalized = <<>>
  /\ list = JsArray(<<>>)
  /\ sanitized = <<>>
  /\ exported = NoExport
  /\ AuthAtRest
  /\ LoopAtRest

\* what the handlers of the settings window leave alone
WindowFrame ==
  /\ UNCHANGED <<artistNames, trackName, blockedArtists, blockedTracks,
                 blockedPatterns, blocked, evaluations>>
  /\ UNCHANGED patternVars
  /\ UNCHANGED <<str, normalized>>
  /\ UNCHANGED <<app, enabled, spotifyConnected, platform, isMusicPlaying,
                 pollingInterval, timers, now, lastSkipTime, cycles,
                 skipCommands, currentStatus, sessionStats, totalStats,
                 errorTimeouts, clicks, ticks, nowPlaying, history>>
  /\ UNCHANGED <<oauthVars, tokenVars>>

\* ipcMain.handle('blocklist:set-artists')
BlocklistSetArtists(artists) ==
  /\ pc = "settings"
  /\ list' = artists
  /\ sanitized' = sanitizeBlockedList(artists)
  /\ store' = [store EXCEPT !.blocked_artists = sanitized']
  /\ last' = Event("blocklist:set-artists", "none", "none", "none")
  /\ pc' = "poll"
  /\ UNCHANGED exported
  /\ WindowFrame

\* ipcMain.handle('blocklist:set-tracks'): the handler rejects when the
\* sanitizer raises
BlocklistSetTracks(tracks) ==
  /\ pc = "settings"
  /\ list' = tracks
  /\ IF sanitizeBlockedTracksThrows(tracks)
     THEN /\ pc' = "threw"
          /\ UNCHANGED <<sanitized, store>>
     ELSE /\ pc' = "poll"
          /\ sanitized' = sanitizeBlockedTracks(tracks)
          /\ store' = [store EXCEPT !.blocked_tracks = sanitized']
  /\ last' = Event("blocklist:set-tracks", "none", "none", "none")
  /\ UNCHANGED exported
  /\ WindowFrame

\* ipcMain.handle('blocklist:set-patterns')
BlocklistSetPatterns(patterns) ==
  /\ pc = "settings"
  /\ list' = patterns
  /\ sanitized' = sanitizeBlockedPatterns(patterns)
  /\ store' = [store EXCEPT !.blocked_patterns = sanitized']
  /\ last' = Event("blocklist:set-patterns", "none", "none", "none")
  /\ pc' = "poll"
  /\ UNCHANGED exported
  /\ WindowFrame

\* ipcMain.handle('blocklist:export')
BlocklistExport ==
  /\ pc = "settings"
  /\ exported = NoExport
  /\ exported' = blocklistExport(store)
  /\ last' = Event("blocklist:export", "none", "none", "none")
  /\ UNCHANGED <<pc, store, list, sanitized>>
  /\ WindowFrame

\* ipcMain.handle('blocklist:import')
BlocklistImport(data) ==
  /\ pc = "settings"
  /\ store' = blocklistImport(store, data).store
  /\ last' = Event("blocklist:import", data.typeof,
                   IF blocklistImport(store, data).success THEN "success"
                   ELSE "failure",
                   data.val.version)
  /\ pc' = "poll"
  /\ UNCHANGED <<list, sanitized, exported>>
  /\ UNCHANGED <<oauthVars, tokenVars>>
  /\ WindowFrame

\* the data handed to blocklist:import: the object exported last, a
\* hand-written object, or a value that is no object
ImportInputs ==
  {ImportData("object", e) : e \in ({exported} \ {NoExport}) \cup {ArtistsOnly}}
    \cup {ImportData(t, NoExport) : t \in {"undefined", "string", "number"}}

SettingsNext ==
  \/ \E artists \in ListInputs : BlocklistSetArtists(artists)
  \/ \E tracks \in TrackListInputs : BlocklistSetTracks(tracks)
  \/ \E patterns \in PatternListInputs : BlocklistSetPatterns(patterns)
  \/ BlocklistExport
  \/ \E data \in ImportInputs : BlocklistImport(data)
  \/ Evaluate

SettingsSpec == SettingsInit /\ [][SettingsNext]_vars

\* ------------------------------------------------------------------------
\* oauthServer.js: the callback server of the Spotify authorization
\* ------------------------------------------------------------------------

\* the delay of the setTimeout of startOAuthServer
OAUTH_TIMEOUT_MS == 5 * 60 * 1000

\* the calls of startOAuthServer in one run
MaxStarts == 2

\* what main.js keeps while the authorization runs, the clock apart
loopVarsButNow ==
  <<app, enabled, spotifyConnected, platform, isMusicPlaying,
    pollingInterval, timers, lastSkipTime, cycles, skipCommands,
    currentStatus, sessionStats, totalStats, errorTimeouts, clicks, ticks,
    nowPlaying, history, last>>

\* one call of startOAuthServer: the state of the promise it returned
\* and the reason of its rejection, the time of the call, and of the
\* server it created whether it listens, how it was closed, by the
\* handler of which call, and when
OAuthCall(promise, reason, started, srv) ==
  [promise |-> promise, reason |-> reason, started |-> started,
   server |-> srv, closedIn |-> "none", closedBy |-> NoServer,
   closedAt |-> 0]

\* resolve or reject of the promise of call k: a settled promise stays
\* as it is
Settle(calls, k, promise, reason) ==
  IF calls[k].promise = "pending"
  THEN [calls EXCEPT ![k].promise = promise, ![k].reason = reason]
  ELSE calls

\* stopOAuthServer: what it leaves in the variable server
stopOAuthServer(srv) == NoServer

\* the server.close() of stopOAuthServer, called by the handler `how` of
\* call k at time t, as the calls record it
ServerClosed(calls, srv, how, k, t) ==
  IF srv # NoServer
  THEN [calls EXCEPT ![srv].server = "closed", ![srv].closedIn = how,
                     ![srv].closedBy = k, ![srv].closedAt = t]
  ELSE calls

OAuthFrame ==
  /\ UNCHANGED <<pc, list, sanitized, exported, str, normalized>>
  /\ UNCHANGED engineVars
  /\ UNCHANGED patternVars
  /\ UNCHANGED tokenVars
  /\ UNCHANGED loopVarsButNow

\* the module oauthServer.js once loaded
OAuthInit ==
  /\ pc = "oauth"
  /\ list = JsArray(<<>>)
  /\ SanitizerAtRest

\* startOAuthServer(): rejected while a server runs; otherwise it creates
\* the server, lets it listen and arms the timeout
StartOAuthServer ==
  /\ pc = "oauth"
  /\ Len(oauthCalls) < MaxStarts
  /\ IF server # NoServer
     THEN /\ oauthCalls' =
               Append(oauthCalls,
                      OAuthCall("rejected", "OAuth server is already running",
                                now, "none"))
          /\ UNCHANGED <<server, oauthTimers>>
     ELSE /\ oauthCalls' =
               Append(oauthCalls, OAuthCall("pending", "none", now, "listening"))
          /\ server' = Len(oauthCalls) + 1
          /\ oauthTimers' = oauthTimers \cup {Len(oauthCalls) + 1}
  /\ UNCHANGED now
  /\ OAuthFrame

\* GET /callback arrives at the server that listens: with an error, with
\* a code, or with neither
OAuthCallback(query) ==
  /\ pc = "oauth"
  /\ server # NoServer
  /\ oauthCalls' =
       ServerClosed(
         CASE query = "error" ->
                Settle(oauthCalls, server, "rejected", "OAuth error")
           [] query = "code" ->
                Settle(oauthCalls, server, "resolved", "none")
           [] OTHER ->
                Settle(oauthCalls, server, "rejected",
                       "No authorization code received"),
         server, "callback", server, now)
  /\ server' = stopOAuthServer(server)
  /\ UNCHANGED <<oauthTimers, now>>
  /\ OAuthFrame

\* the server that listens emits 'error'
OAuthServerError(code) ==
  /\ pc = "oauth"
  /\ server # NoServer
  /\ oauthCalls' =
       ServerClosed(
         Settle(oauthCalls, server, "rejected",
                IF code = "EADDRINUSE" THEN "Port 24863 is already in use"
                ELSE code),
         server, "error", server, now)
  /\ server' = stopOAuthServer(server)
  /\ UNCHANGED <<oauthTimers, now>>
  /\ OAuthFrame

\* the timeout armed by call k runs: if (server) { reject; stop }
OAuthTimeout(k) ==
  /\ pc = "oauth"
  /\ k \in oauthTimers
  /\ now = oauthCalls[k].started + OAUTH_TIMEOUT_MS
  /\ oauthTimers' = oauthTimers \ {k}
  /\ IF server # NoServer
     THEN /\ oauthCalls' =
               ServerClosed(
                 Settle(oauthCalls, k, "rejected", "OAuth server timeout"),
                 server, "timeout", k, now)
          /\ server' = stopOAuthServer(server)
     ELSE UNCHANGED <<server, oauthCalls>>
  /\ UNCHANGED now
  /\ OAuthFrame

\* time passes, up to the next timeout that is due
OAuthTimePasses ==
  /\ pc = "oauth"
  /\ now < StartTime + MaxStarts * OAUTH_TIMEOUT_MS
  /\ now' = now + OAUTH_TIMEOUT_MS \div 2
  /\ \A k \in oauthTimers : now' <= oauthCalls[k].started + OAUTH_TIMEOUT_MS
  /\ UNCHANGED oauthVars
  /\ OAuthFrame

OAuthNext ==
  \/ StartOAuthServer
  \/ \E query \in {"error", "code", "neither"} : OAuthCallback(query)
  \/ \E code \in {"EADDRINUSE", "EACCES"} : OAuthServerError(code)
  \/ \E k \in 1..MaxStarts : OAuthTimeout(k)
  \/ OAuthTimePasses

OAuthSpec == OAuthInit /\ [][OAuthNext]_vars

\* ------------------------------------------------------------------------
\* spotify.js: the stored tokens and their refresh
\* ------------------------------------------------------------------------

\* the refresh requests of one run
MaxRefreshes == 2

\* getValidAccessToken refreshes a token that expires in less than this
REFRESH_MARGIN_MS == 60000

\* the expires_in of a token response, in seconds
ExpiresIn == {3600}

\* why httpsRequest rejects: the request's 'error' event, a status
\* outside 200..299, a body that is no JSON
RefreshFailures ==
  {"ECONNRESET", "HTTP 400", "HTTP 401", "Failed to parse response"}

\* a catch block that deletes the access token and the expiry only
DeleteAccessTokenOnly(t) ==
  [t EXCEPT !.access_token = NoToken, !.expires_at = NoToken]

\* the three store.delete calls of the catch block of refreshAccessToken
DeleteTokens(t) == NoTokens

\* the two store.set calls of refreshAccessToken after the response
StoreNewTokens(t, access_token, expires_in, time) ==
  [t EXCEPT !.access_token = access_token,
            !.expires_at = time + expires_in * 1000]

isSpotifyConnected(t) == t.refresh_token # NoToken

\* !accessToken || Date.now() >= (expiresAt - 60000)
NeedsRefresh(t, time) ==
  \/ t.access_token = NoToken
  \/ time >= t.expires_at - REFRESH_MARGIN_MS

\* the access token that the response to request i carries
NewAccessToken(i) == i + 1

TokenFrame ==
  /\ UNCHANGED <<pc, list, sanitized, exported, str, normalized>>
  /\ UNCHANGED engineVars
  /\ UNCHANGED patternVars
  /\ UNCHANGED oauthVars
  /\ UNCHANGED <<app, enabled, spotifyConnected, platform, isMusicPlaying,
                 pollingInterval, timers, lastSkipTime, cycles, skipCommands,
                 currentStatus, sessionStats, totalStats, errorTimeouts,
                 clicks, ticks, nowPlaying, history>>

\* the store when the app starts: Spotify never connected, or connected
\* by exchangeCodeForTokens with a token that is still good or expired
TokenInit ==
  /\ pc = "tokens"
  /\ list = JsArray(<<>>)
  /\ sanitized = <<>>
  /\ exported = NoExport
  /\ server = NoServer
  /\ oauthCalls = <<>>
  /\ oauthTimers = {}
  /\ refreshes = <<>>
  /\ \/ tokens = NoTokens
     \/ \E e \in ExpiresIn :
          tokens \in {[access_token |-> 1, refresh_token |-> 1,
                       expires_at |-> StartTime + e * 1000],
                      [access_token |-> 1, refresh_token |-> 1,
                       expires_at |-> StartTime]}
  /\ str = <<>>
  /\ normalized = <<>>
  /\ store = DefaultStore
  /\ artistNames = JsArray(<<>>)
  /\ trackName = <<>>
  /\ blockedArtists = <<>>
  /\ blockedTracks = <<>>
  /\ blockedPatterns = <<>>
  /\ blocked = Verdict(FALSE, "null")
  /\ evaluations = <<>>
  /\ pattern = <<>>
  /\ text = <<>>
  /\ matched = FALSE
  /\ LoopAtRest

\* pollNowPlaying asks Spotify only if isSpotifyConnected();
\* getCurrentlyPlaying then awaits getValidAccessToken, which uses the
\* stored token or calls refreshAccessToken; that one throws without a
\* request if the client credentials are missing, else sends the request
PollSpotify ==
  /\ pc = "tokens"
  /\ IF ~isSpotifyConnected(tokens)
     THEN /\ last' = Event("pollNowPlaying", "not connected", "none", "none")
          /\ UNCHANGED refreshes
     ELSE IF ~NeedsRefresh(tokens, now)
     THEN /\ last' = Event("pollNowPlaying", "queried", "token valid", "none")
          /\ UNCHANGED refreshes
     ELSE \E configured \in BOOLEAN :
            IF configured
            THEN /\ Len(refreshes) < MaxRefreshes
                 /\ refreshes' = Append(refreshes, "in flight")
                 /\ last' = Event("pollNowPlaying", "queried", "refreshing",
                                  "none")
            ELSE /\ last' = Event("pollNowPlaying", "queried",
                                  "credentials missing", "none")
                 /\ UNCHANGED refreshes
  /\ UNCHANGED <<tokens, now>>
  /\ TokenFrame

\* the token request i settles: httpsRequest rejects and the catch block
\* deletes the tokens and rethrows, or it resolves and the new access
\* token and expiry are stored
RefreshResponse(i, outcome) ==
  /\ pc = "tokens"
  /\ i \in 1..Len(refreshes)
  /\ refreshes[i] = "in flight"
  /\ IF outcome \in RefreshFailures
     THEN /\ tokens' = DeleteTokens(tokens)
          /\ refreshes' = [refreshes EXCEPT ![i] = "failed"]
          /\ last' = Event("refreshAccessToken", outcome, "threw", "none")
     ELSE /\ \E e \in ExpiresIn :
               tokens' = StoreNewTokens(tokens, NewAccessToken(i), e, now)
          /\ refreshes' = [refreshes EXCEPT ![i] = "succeeded"]
          /\ last' = Event("refreshAccessToken", outcome, "returned", "none")
  /\ UNCHANGED now
  /\ TokenFrame

\* time passes: as long as a token lasts less the margin
TokenTimePasses ==
  /\ pc = "tokens"
  /\ \E e \in ExpiresIn :
       /\ now < StartTime + MaxRefreshes * e * 1000
       /\ now' = now + e * 1000 - REFRESH_MARGIN_MS
  /\ UNCHANGED <<tokens, refreshes, last>>
  /\ TokenFrame

TokenNext ==
  \/ PollSpotify
  \/ \E i \in 1..MaxRefreshes :
       \E outcome \in RefreshFailures \cup {"tokens"} :
         RefreshResponse(i, outcome)
  \/ TokenTimePasses

TokenSpec == TokenInit /\ [][TokenNext]_vars

\* ------------------------------------------------------------------------
\* All together
\* ------------------------------------------------------------------------

Init ==
  \/ EngineInit
  \/ PurityInit
  \/ PatternInit
  \/ NormalizeInit
  \/ SanitizeListInit
  \/ SanitizeTracksInit
  \/ SeparatorInit
  \/ SanitizePatternsInit
  \/ CallInit
  \/ LoopInit
  \/ SessionInit
  \/ SettingsInit
  \/ OAuthInit
  \/ TokenInit

Next ==
  \/ Evaluate
  \/ NextPoll
  \/ MatchPattern
  \/ Normalize
  \/ SanitizeList
  \/ SanitizeTracks
  \/ SanitizePatterns
  \/ CallIsBlocked
  \/ LoopNext
  \/ SessionNext
  \/ SettingsNext
  \/ OAuthNext
  \/ TokenNext

Spec == Init /\ [][Next]_vars

\* ------------------------------------------------------------------------
\* What the claims speak of, stated on the evaluated state
\* ------------------------------------------------------------------------

Evaluated == pc = "evaluated"

ReverseMode == store.reverse_mode

BlockCollaborations == store.block_collaborations

\* the normalized names of the observed artists
ObservedNames ==
  LET artistArray == ArtistArray(artistNames)
  IN  {normalize(artistArray[i]) : i \in 1..Len(artistArray)}

\* the artist-rule set
ArtistRules == {blockedArtists[i] : i \in 1..Len(blockedArtists)}

TrackRules == {blockedTracks[i] : i \in 1..Len(blockedTracks)}

PatternRules == {blockedPatterns[i] : i \in 1..Len(blockedPatterns)}

\* some observed artist normalizes to a member of the artist-rule set
ExactArtistMatch == ObservedNames \cap ArtistRules # {}

\* some track rule has the observed title and no artist or an observed one
TrackRuleMatch ==
  \E r \in TrackRules :
    /\ r.track = normalize(trackName)
    /\ r.artist = Undefined \/ r.artist \in ObservedNames

PatternRuleMatch == \E p \in PatternRules : matchPattern(p, trackName)

\* some artist rule is a substring of some observed artist's normalized name
SubstringArtistMatch ==
  \E o \in ObservedNames : \E r \in ArtistRules : includes(o, r)

\* the conditions of the five steps, in priority order
StepFires(k) ==
  CASE k = 1 -> ReverseMode /\ ~ExactArtistMatch
    [] k = 2 -> TrackRuleMatch
    [] k = 3 -> PatternRuleMatch
    [] k = 4 -> ExactArtistMatch
    [] k = 5 -> BlockCollaborations /\ ~ReverseMode /\ SubstringArtistMatch

StepReason == <<"reverse", "track", "pattern", "artist", "artist">>

FiringSteps == {k \in 1..5 : StepFires(k)}

FirstFiringStep == CHOOSE k \in FiringSteps : \A j \in FiringSteps : k <= j

NotBlocked == Verdict(FALSE, "null")

\* ------------------------------------------------------------------------
\* C1
\* ------------------------------------------------------------------------

\* C1: the verdict's reason is that of the first step whose condition holds
\* in the order reverse gate, track rule, pattern rule, artist rule,
\* collaboration rule, and the verdict is not blocked when none holds; so an
\* observation matching a track rule and an artist rule has reason track,
\* and one matching a pattern and an artist rule (and no track rule) has
\* reason pattern.
C1_FirstMatchWins ==
  Evaluated =>
    /\ IF FiringSteps = {}
       THEN blocked = NotBlocked
       ELSE blocked = Verdict(TRUE, StepReason[FirstFiringStep])
    /\ TrackRuleMatch /\ ExactArtistMatch => blocked.reason = "track"
    /\ PatternRuleMatch /\ ExactArtistMatch /\ ~TrackRuleMatch
         => blocked.reason = "pattern"

C1_Witness ==
  /\ Evaluated
  /\ TrackRuleMatch /\ PatternRuleMatch /\ ExactArtistMatch
  /\ BlockCollaborations
  /\ blocked = Verdict(TRUE, "track")

\* ------------------------------------------------------------------------
\* C2
\* ------------------------------------------------------------------------

\* C2: in reverse mode an observation with an allowed artist that no track
\* rule and no pattern matches is not blocked.
C2_AllowedArtistPlays ==
  Evaluated /\ ReverseMode /\ ExactArtistMatch
    /\ ~TrackRuleMatch /\ ~PatternRuleMatch
  => blocked = NotBlocked

\* ------------------------------------------------------------------------
\* C3
\* ------------------------------------------------------------------------

\* C3: in reverse mode an observation none of whose artists is in the
\* allow-list (an empty artist list included) is blocked with reason
\* reverse, whatever the track rules, patterns and collaboration flag are.
C3_ReverseGate ==
  Evaluated /\ ReverseMode /\ ~ExactArtistMatch
  => blocked = Verdict(TRUE, "reverse")

C3_Witness ==
  /\ Evaluated /\ ReverseMode
  /\ ArtistArray(artistNames) = <<>>
  /\ ArtistRules # {}
  /\ TrackRuleMatch
  /\ blocked = Verdict(TRUE, "reverse")

\* ------------------------------------------------------------------------
\* C4
\* ------------------------------------------------------------------------

\* a track rule without artist names the observed title
ArtistlessRuleForTitle ==
  \E r \in TrackRules : r.artist = Undefined /\ r.track = normalize(trackName)

\* C4: outside reverse mode a track rule without artist whose track is the
\* normalized observed title blocks with reason track for every observed
\* artist list: any performers, none, or only empty and non-string entries.
C4_ArtistlessTrackRule ==
  Evaluated /\ ~ReverseMode /\ ArtistlessRuleForTitle
  => blocked = Verdict(TRUE, "track")

C4_Witness ==
  /\ Evaluated /\ ~ReverseMode /\ ArtistlessRuleForTitle
  /\ ArtistArray(artistNames) = <<>>
  /\ blocked = Verdict(TRUE, "track")

\* ------------------------------------------------------------------------
\* C5
\* ------------------------------------------------------------------------

\* every track rule for the observed title names an artist, and none of
\* them names an observed artist
OnlyOtherArtistsRules ==
  \A r \in TrackRules :
    r.track = normalize(trackName)
      => r.artist # Undefined /\ r.artist \notin ObservedNames

\* C5: a track rule with an artist matches only an observation of its title
\* by that artist: a verdict with reason track has a rule whose track is the
\* normalized title and whose artist is absent or observed; and outside
\* reverse mode, with no pattern, artist or collaboration match, the title
\* performed only by other artists is not blocked.
C5_TrackRuleNeedsItsArtist ==
  Evaluated =>
    /\ blocked.reason = "track" => TrackRuleMatch
    /\ ~ReverseMode /\ ~PatternRuleMatch /\ ~ExactArtistMatch
         /\ ~(BlockCollaborations /\ SubstringArtistMatch)
         /\ OnlyOtherArtistsRules
       => blocked = NotBlocked

C5_Witness ==
  /\ Evaluated /\ ~ReverseMode
  /\ OnlyOtherArtistsRules
  /\ \E r \in TrackRules : r.track = normalize(trackName)
  /\ \E o \in ObservedNames : o # <<>>
  /\ blocked = NotBlocked

\* ------------------------------------------------------------------------
\* C6
\* ------------------------------------------------------------------------

Matched == pc = "matched"

\* the glob matcher of the rule description: the wildcard markers are taken
\* off the pattern, what is left is normalized, and the marker positions
\* choose between contains, ends with, starts with and equals
ReferenceGlob(P, t) ==
  LET leading  == P # <<>> /\ Head(P) = "*"
      trailing == P # <<>> /\ P[Len(P)] = "*"
      core     == SubSeq(P, IF leading THEN 2 ELSE 1,
                            IF trailing THEN Len(P) - 1 ELSE Len(P))
      X        == normalize(core)
      T        == normalize(t)
  IN  IF X = <<>> THEN FALSE
      ELSE IF leading /\ trailing THEN includes(T, X)
      ELSE IF leading THEN endsWith(T, X)
      ELSE IF trailing THEN startsWith(T, X)
      ELSE T = X

\* a pattern rule of the data model: "*" occurs at most as the first and as
\* the last character
MarkersOnlyAtEnds(P) ==
  \A i \in 2..(Len(P) - 1) : P[i] # "*"

\* C6: matchPattern agrees with the reference glob matcher on every pattern
\* (here: every pattern whose only "*" are leading or trailing markers) and
\* every text, patterns with whitespace next to the wildcard included.
C6_MatchesReferenceGlob ==
  Matched /\ MarkersOnlyAtEnds(pattern)
  => matched = ReferenceGlob(pattern, text)

\* ------------------------------------------------------------------------
\* C7
\* ------------------------------------------------------------------------

\* C7: "*live" matches "Song Title (Live)" and not "Song Title (Live
\* Version)"; "live*" matches "Song Title (Live Version)" and not
\* "A Live One".
C7_LiveExamples ==
  Matched =>
    /\ pattern = PatLive /\ text = SongTitleLive => matched
    /\ pattern = PatLive /\ text = SongTitleLiveVersion => ~matched
    /\ pattern = PatLivePrefix /\ text = SongTitleLiveVersion => matched
    /\ pattern = PatLivePrefix /\ text = ALiveOne => ~matched

\* C7 as amended: "*live" matches neither "Song Title (Live)" nor "Song
\* Title (Live Version)", whose normalized forms end with ")", and matches
\* "Song Title - Live"; "live*" matches neither "Song Title (Live Version)"
\* nor "A Live One", which do not start with "live", and matches
\* "Live Version".
C7_LiveExamplesAmended ==
  Matched =>
    /\ pattern = PatLive /\ text = SongTitleLive => ~matched
    /\ pattern = PatLive /\ text = SongTitleLiveVersion => ~matched
    /\ pattern = PatLive /\ text = SongTitleDashLive => matched
    /\ pattern = PatLivePrefix /\ text = SongTitleLiveVersion => ~matched
    /\ pattern = PatLivePrefix /\ text = ALiveOne => ~matched
    /\ pattern = PatLivePrefix /\ text = LiveVersion => matched

C7_Witness ==
  Matched /\ pattern = PatLive /\ text = SongTitleLive /\ ~matched

\* ------------------------------------------------------------------------
\* C8
\* ------------------------------------------------------------------------

\* the rules of the scenario: the one pattern "*acoustic", no track rule,
\* reverse mode off
AcousticRulesOnly ==
  /\ blockedPatterns = <<PatAcoustic>>
  /\ blockedTracks = <<>>
  /\ ~ReverseMode

\* the scenario: ["Drake"] playing "Song (Acoustic)" against those rules,
\* with no artist rule and collaboration blocking off
AcousticScenario ==
  /\ AcousticRulesOnly
  /\ blockedArtists = <<>>
  /\ ~BlockCollaborations
  /\ artistNames = [isArray |-> TRUE, val |-> <<Drake>>]
  /\ trackName = SongAcoustic

\* C8: the scenario is blocked with reason pattern.
C8_AcousticScenarioBlocked ==
  Evaluated /\ AcousticScenario => blocked = Verdict(TRUE, "pattern")

\* C8 as amended: the scenario is not blocked, because the normalized title
\* "song (acoustic)" ends with ")"; the suffix pattern "*acoustic" blocks,
\* with reason pattern, exactly the titles whose normalized form ends with
\* "acoustic", such as "Song - Acoustic".
C8_SuffixPatternNeedsSuffix ==
  Evaluated =>
    /\ AcousticScenario => blocked = NotBlocked
    /\ AcousticRulesOnly =>
         (blocked = Verdict(TRUE, "pattern")
            <=> endsWith(normalize(trackName), Tail(PatAcoustic)))

C8_Witness ==
  Evaluated /\ AcousticScenario /\ blocked = NotBlocked

\* ------------------------------------------------------------------------
\* C9
\* ------------------------------------------------------------------------

\* C9: outside reverse mode, with no track or pattern rule matching, the
\* verdict is blocked with reason artist iff some observed artist
\* normalizes to a member of the artist-rule set.
C9_ArtistIffExactMatch ==
  Evaluated /\ ~ReverseMode /\ ~TrackRuleMatch /\ ~PatternRuleMatch
  => (blocked = Verdict(TRUE, "artist") <=> ExactArtistMatch)

\* C9 as amended: outside reverse mode, with no track or pattern rule
\* matching, the verdict is blocked with reason artist iff some one of the
\* observed artists normalizes to a member of the artist-rule set or,
\* with blockCollaborations on, an artist rule is a substring of an
\* observed artist's normalized name; otherwise it is not blocked.
C9_ArtistIffExactOrCollaboration ==
  Evaluated /\ ~ReverseMode /\ ~TrackRuleMatch /\ ~PatternRuleMatch
  => IF ExactArtistMatch \/ (BlockCollaborations /\ SubstringArtistMatch)
     THEN blocked = Verdict(TRUE, "artist")
     ELSE blocked = NotBlocked

\* two observed artists of whom only one, written with other case and
\* whitespace than the rule, is in the rule set
C9_Witness ==
  /\ Evaluated /\ ~ReverseMode /\ ~BlockCollaborations
  /\ ~TrackRuleMatch /\ ~PatternRuleMatch
  /\ artistNames = [isArray |-> TRUE, val |-> <<Drake, TaylorSwiftVariant>>]
  /\ ArtistRules = {normalize(TaylorSwift)}
  /\ blocked = Verdict(TRUE, "artist")

\* ------------------------------------------------------------------------
\* C10
\* ------------------------------------------------------------------------

\* none of the reverse gate, track, pattern and artist steps fires
NoEarlierStep == \A k \in 1..4 : ~StepFires(k)

BlockReasons == {"artist", "track", "pattern", "reverse"}

\* C11: every verdict isBlocked returns is well formed: it is blocked
\* exactly when its reason is one of artist, track, pattern, reverse, and
\* it is not blocked exactly when its reason is none (null).
C11_VerdictWellFormed ==
  Evaluated =>
    /\ blocked.blocked \in BOOLEAN
    /\ blocked.blocked <=> blocked.reason \in BlockReasons
    /\ ~blocked.blocked <=> blocked.reason = "null"

\* a collaboration verdict: blocked by the last step that can block
C11_Witness ==
  /\ Evaluated
  /\ NoEarlierStep
  /\ StepFires(5)
  /\ blocked.blocked
  /\ blocked.reason \in BlockReasons

\* ------------------------------------------------------------------------
\* C12
\* ------------------------------------------------------------------------

\* C12: once a skip command has been issued, by a poll cycle or by the
\* tray's Skip Track, no further skip command is issued until
\* SKIP_COOLDOWN_MS has elapsed, whatever verdicts come in between and even
\* while the earlier command still awaits its result.
C12_SkipCooldown ==
  \A i \in 1..Len(skipCommands) : \A j \in 1..Len(skipCommands) :
    i < j => skipCommands[j].at - skipCommands[i].at >= SKIP_COOLDOWN_MS

\* ------------------------------------------------------------------------
\* C13
\* ------------------------------------------------------------------------

\* C13: at most one call of pollNowPlaying is in flight at any time: no
\* cycle starts while an earlier cycle's provider query or skip command is
\* unresolved.
C13_OneCycleInFlight == InFlight <= 1

\* ------------------------------------------------------------------------
\* C14
\* ------------------------------------------------------------------------

PeriodFor(playing) ==
  IF playing THEN POLL_INTERVAL_MS ELSE IDLE_POLL_INTERVAL_MS

\* C14: an armed polling timer has the fast period exactly when
\* isMusicPlaying is true and the slow period otherwise, so every change of
\* isMusicPlaying re-arms the timer in the same step; never two polling
\* timers are armed, and one is while the loop runs.
C14_PollCadence ==
  /\ Cardinality(timers) <= 1
  /\ app = "running" => Cardinality(timers) = 1
  /\ \A t \in timers :
       /\ t.id = pollingInterval
       /\ t.period = PeriodFor(isMusicPlaying)
       /\ isMusicPlaying <=> t.period = POLL_INTERVAL_MS

\* a cycle has just found a track playing and the timer is the fast one
C14_Witness ==
  /\ app = "running"
  /\ last.result = "playing"
  /\ isMusicPlaying
  /\ \E t \in timers : t.id = pollingInterval /\ t.period = POLL_INTERVAL_MS

\* ------------------------------------------------------------------------
\* C15
\* ------------------------------------------------------------------------

\* C15: after stopPolling has run on before-quit no polling timer is armed,
\* and none is armed again, even when a poll cycle that was in flight
\* completes with a change of the playing state.
C15_StoppedStaysStopped ==
  app = "quitting" => timers = {} /\ pollingInterval = NoTimer

\* ------------------------------------------------------------------------
\* C16
\* ------------------------------------------------------------------------

\* what a provider's answer is when it reports no playing track
NotPlayingResults == {"throws", "null", "paused"}

\* a provider has just answered without a playing track
ProviderGaveNothing ==
  /\ last.handler \in {"spotify", "apple-music"}
  /\ last.result \in NotPlayingResults

\* C16: when a provider throws or returns no data the cycle goes on as if
\* nothing were playing there: after Spotify it queries Apple Music (on
\* macOS), and after the last provider it ends idle, with source idle,
\* artist, track and error null, isMusicPlaying false, the slow cadence,
\* and no skip command; a throw ends as a null answer does.
C16_ProviderFailureIsIdle ==
  ProviderGaveNothing =>
    IF last.handler = "spotify" /\ platform = "darwin"
    THEN /\ last.end = "apple-music"
         /\ cycles["apple-music"] > 0
         /\ last.skip = "none"
    ELSE /\ last.end = "idle"
         /\ last.skip = "none"
         /\ currentStatus = IdleStatus
         /\ ~isMusicPlaying
         /\ \A t \in timers : t.period = IDLE_POLL_INTERVAL_MS

\* on macOS with Spotify connected a cycle has ended idle: Spotify had
\* reported nothing playing or thrown, and Apple Music returned null
C16_Witness ==
  /\ spotifyConnected
  /\ platform = "darwin"
  /\ enabled
  /\ last = Event("apple-music", "null", "idle", "none")
  /\ currentStatus = IdleStatus
  /\ \E t \in timers : t.period = IDLE_POLL_INTERVAL_MS

\* ------------------------------------------------------------------------
\* C17
\* ------------------------------------------------------------------------

\* the verdict of the engine on what currentStatus shows
StatusVerdict ==
  isBlocked(IF currentStatus.artist.isArray THEN currentStatus.artist
            ELSE JsArray(<<currentStatus.artist.val>>),
            currentStatus.track,
            sanitizeBlockedList(JsArray(store.blocked_artists)),
            sanitizeBlockedTracks(JsArray(store.blocked_tracks)),
            sanitizeBlockedPatterns(JsArray(store.blocked_patterns)),
            store.reverse_mode, store.block_collaborations)

SpotifyReportedPlaying == last.handler = "spotify" /\ last.result = "playing"

\* C17: when Spotify is connected and reports a playing track the cycle
\* sets the source to spotify, evaluates that track, skips on Spotify if it
\* is blocked (and the cooldown allows), and does not query Apple Music;
\* an Apple Music query starts only when Spotify is not connected, has
\* failed, or has reported nothing playing.
C17_ProviderPriority ==
  /\ SpotifyReportedPlaying =>
       /\ currentStatus.source = "spotify"
       /\ last.end # "apple-music"
       /\ IF ~StatusVerdict.blocked THEN last.skip = "none"
          ELSE IF now - lastSkipTime < SKIP_COOLDOWN_MS
          THEN last.skip = "cooldown"
          ELSE /\ last.skip = "issued"
               /\ skipCommands[Len(skipCommands)] =
                    [by |-> "poll", source |-> "spotify",
                     reason |-> StatusVerdict.reason, at |-> now,
                     result |-> "pending"]
  /\ last.end = "apple-music" =>
       \/ last.handler = "pollNowPlaying" /\ ~spotifyConnected
       \/ last.handler = "spotify" /\ last.result \in NotPlayingResults

\* Spotify reported a blocked track on macOS: the skip goes to Spotify and
\* no Apple Music query is pending
C17_Witness ==
  /\ platform = "darwin"
  /\ last = Event("spotify", "playing", "skip", "issued")
  /\ StatusVerdict.blocked
  /\ skipCommands[Len(skipCommands)].source = "spotify"
  /\ cycles["apple-music"] = 0

\* ------------------------------------------------------------------------
\* C18
\* ------------------------------------------------------------------------

\* the skip commands of poll cycles that succeeded, all or those of one
\* reason
SkipsCompleted(reason) ==
  Cardinality({k \in 1..Len(skipCommands) :
                 /\ skipCommands[k].by = "poll"
                 /\ skipCommands[k].result = "ok"
                 /\ reason \in {"total", skipCommands[k].reason}})

\* C18: the session counters and the persisted counters count exactly the
\* skip commands of poll cycles that completed successfully, each under
\* its verdict's reason: verdicts held back by the cooldown, failed skips
\* and the tray's skips add nothing.
\* Between two resets of the settings window the counters are the numbers
\* of these skip commands: every step adds to each counter the skip
\* commands of its reason that the step completed, unless it is the reset
\* of that counter.
C18_StatsCountSkips ==
  [][\A r \in {"total", "artist", "track", "pattern", "reverse"} :
       /\ \/ sessionStats'[r]
               = sessionStats[r] + SkipsCompleted(r)' - SkipsCompleted(r)
          \/ /\ last'.handler = "stats:reset-session"
             /\ sessionStats'[r] = 0
             /\ SkipsCompleted(r)' = SkipsCompleted(r)
       /\ \/ totalStats'[r]
               = totalStats[r] + SkipsCompleted(r)' - SkipsCompleted(r)
          \/ /\ last'.handler = "stats:reset-total"
             /\ totalStats'[r] = 0
             /\ SkipsCompleted(r)' = SkipsCompleted(r)]_vars

\* one skip of a poll cycle succeeded, one failed and the tray's succeeded:
\* one block is counted
C18_Witness ==
  /\ sessionStats.total = 1
  /\ totalStats.total = 1
  /\ \E k \in 1..Len(skipCommands) :
       skipCommands[k].by = "poll" /\ skipCommands[k].result = "failed"
  /\ \E k \in 1..Len(skipCommands) :
       skipCommands[k].by = "tray" /\ skipCommands[k].result = "ok"

\* ------------------------------------------------------------------------
\* C19
\* ------------------------------------------------------------------------

Normalized == pc = "normalized"

\* no whitespace at either end
NoOuterWhiteSpace(s) ==
  s # <<>> => Head(s) \notin WhiteSpace /\ s[Len(s)] \notin WhiteSpace

\* no two whitespace characters in a row
NoWhiteSpaceRun(s) ==
  \A i \in 1..Len(s) - 1 : ~(s[i] \in WhiteSpace /\ s[i + 1] \in WhiteSpace)

\* C19: normalize is total and idempotent: for every input it returns a
\* string with no leading or trailing whitespace, no upper-case letter and
\* no run of more than one whitespace character; an input that is no
\* string (null, undefined, a number, an object) yields the empty string;
\* and normalize(normalize(s)) = normalize(s).
C19_NormalizeTotalIdempotent ==
  Normalized =>
    /\ IsString(normalized)
    /\ NoOuterWhiteSpace(normalized)
    /\ \A i \in 1..Len(normalized) : normalized[i] \notin UpperSet
    /\ NoWhiteSpaceRun(normalized)
    /\ ~IsString(str) => normalized = <<>>
    /\ normalize(normalized) = normalized

\* '  taylor \tSWIFT ' becomes 'taylor swift'
C19_Witness ==
  /\ Normalized
  /\ str = TaylorSwiftVariant
  /\ ~NoOuterWhiteSpace(str)
  /\ ~NoWhiteSpaceRun(str)
  /\ normalized = toLowerCase(TaylorSwift)

\* ------------------------------------------------------------------------
\* C20
\* ------------------------------------------------------------------------

Sanitized == pc = "sanitized"

\* the non-empty normalized forms of the entries of an array
NormalizedForms(a) == {normalize(a[i]) : i \in 1..Len(a)} \ {<<>>}

\* C20: sanitizeBlockedList returns exactly the non-empty normalized forms
\* of the entries of its list, each once: variants of one name in case or
\* whitespace collapse to one rule, entries that normalize to the empty
\* string are dropped, and an input that is no list yields the empty
\* list.
C20_SanitizeBlockedList ==
  Sanitized =>
    IF list.isArray
    THEN /\ {sanitized[i] : i \in 1..Len(sanitized)} = NormalizedForms(list.val)
         /\ Len(sanitized) = Cardinality(NormalizedForms(list.val))
    ELSE sanitized = <<>>

\* two variants of one name and a blank entry leave one rule
C20_Witness ==
  /\ Sanitized
  /\ list = JsArray(<<TaylorSwiftVariant, Blank, TaylorSwift>>)
  /\ sanitized = <<toLowerCase(TaylorSwift)>>

\* ------------------------------------------------------------------------
\* C21
\* ------------------------------------------------------------------------

TracksSanitized == pc = "tracksSanitized"

\* an entry's artist is missing or blank
NoArtistGiven(item) ==
  ~IsString(item.artist) \/ trim(item.artist) = <<>>

\* the rule an entry stands for: its artist is absent when none is given
RuleOf(item) ==
  [track  |-> normalize(item.track),
   artist |-> IF NoArtistGiven(item) THEN Undefined
              ELSE normalize(item.artist)]

\* the rules of the entries of an array that are objects whose track does
\* not normalize to the empty string
RulesOf(a) ==
  {RuleOf(a[i]) : i \in {j \in 1..Len(a) :
                           IsObject(a[j]) /\ normalize(a[j].track) # <<>>}}

\* C21: sanitizeBlockedTracks never returns a rule whose track is empty or
\* whose artist is the empty string: an entry with a missing or blank
\* artist becomes a rule with no artist, an entry with a non-blank artist
\* keeps its normalized artist, and an entry whose track normalizes to the
\* empty string is dropped.
C21_TrackRulesWellFormed ==
  TracksSanitized =>
    /\ \A i \in 1..Len(sanitized) :
         /\ sanitized[i].track # <<>>
         /\ sanitized[i].artist # <<>>
    /\ list.isArray =>
         {sanitized[i] : i \in 1..Len(sanitized)} = RulesOf(list.val)

\* an entry with a blank artist and one with an artist and a blank track:
\* one rule without artist is left
C21_Witness ==
  /\ TracksSanitized
  /\ list = JsArray(<<[track |-> <<" ", "A", " ">>, artist |-> <<" ">>],
                      [track |-> <<" ">>, artist |-> <<"b">>]>>)
  /\ sanitized = <<[track |-> <<"a">>, artist |-> Undefined]>>

\* ------------------------------------------------------------------------
\* C22
\* ------------------------------------------------------------------------

PatternsSanitized == pc = "patternsSanitized"

\* the non-empty trimmed forms of the string entries of an array
TrimmedForms(a) ==
  {trim(a[i]) : i \in {j \in 1..Len(a) : IsString(a[j])}} \ {<<>>}

\* C22: sanitizeBlockedPatterns trims each entry, drops blank entries and
\* entries that are no strings, and removes duplicates by the exact value,
\* without folding case: '*Live' and '*live' are both kept.
C22_PatternsKeepCase ==
  PatternsSanitized =>
    IF list.isArray
    THEN /\ {sanitized[i] : i \in 1..Len(sanitized)} = TrimmedForms(list.val)
         /\ Len(sanitized) = Cardinality(TrimmedForms(list.val))
    ELSE sanitized = <<>>

\* ' *Live ', '*live' and '*Live' leave the two rules '*Live' and '*live'
C22_Witness ==
  /\ PatternsSanitized
  /\ list = JsArray(<<PatLiveUpperSpaced, PatLive, PatLiveUpper>>)
  /\ sanitized = <<PatLiveUpper, PatLive>>

\* ------------------------------------------------------------------------
\* C23
\* ------------------------------------------------------------------------

\* C23: the sanitizers and isBlocked return a value for an input of any
\* shape (an argument that is no list, null or non-object entries, fields
\* that are no strings) and never raise.
C23_Total == pc # "threw"

\* ------------------------------------------------------------------------
\* C24
\* ------------------------------------------------------------------------

\* two calls of isBlocked had the same arguments
SameArguments(e, f) ==
  [e EXCEPT !.verdict = f.verdict] = f

\* a step in which isBlocked is called
IsBlockedCalled == pc = "poll" /\ pc' = "evaluated"

NamesOf(source, obs) ==
  IF source = "spotify" THEN JsArray(obs.artists)
  ELSE JsArray(<<obs.artists[1]>>)

\* the verdict of the engine on obs under the rules of the store
VerdictOn(source, obs) ==
  isBlocked(NamesOf(source, obs), obs.track,
            sanitizeBlockedList(JsArray(store.blocked_artists)),
            sanitizeBlockedTracks(JsArray(store.blocked_tracks)),
            sanitizeBlockedPatterns(JsArray(store.blocked_patterns)),
            store.reverse_mode, store.block_collaborations)

\* ------------------------------------------------------------------------
\* C25
\* ------------------------------------------------------------------------

\* the step adds an entry at the head of the history
EntryAdded ==
  /\ history' # <<>>
  /\ history # <<>> => history'[1] # history[1]
  /\ history'[1].reasonBlocked = "undefined"
  /\ Len(history') >= Len(history)

\* C25: the history never holds more than MAX_HISTORY = 10 entries and is
\* ordered newest first; when an entry is added to a history of 10, the
\* oldest one is dropped and the other nine follow the new one.
C25_HistoryBounded ==
  /\ [](/\ Len(history) <= MAX_HISTORY
        /\ \A i \in 1..Len(history) : \A j \in i..Len(history) :
             history[i].ts >= history[j].ts)
  /\ [][Len(history) = MAX_HISTORY /\ EntryAdded =>
          /\ Len(history') = MAX_HISTORY
          /\ \A k \in 2..MAX_HISTORY : history'[k] = history[k - 1]]_vars

\* an eleventh title was seen: the history holds ten entries, the newest
\* first, and the oldest of the first nine is gone
C25_Witness ==
  /\ Len(history) = MAX_HISTORY
  /\ history[1].ts > history[2].ts
  /\ history[2].ts > history[3].ts
  /\ \A k \in 1..Len(history) :
       history[k] # PastEntry(MAX_HISTORY - 1, MAX_HISTORY - 1, ActiveSource)
  /\ history[MAX_HISTORY]
       = PastEntry(MAX_HISTORY - 1, MAX_HISTORY - 2, ActiveSource)

\* ------------------------------------------------------------------------
\* C26, C27
\* ------------------------------------------------------------------------

\* the artist string that updateNowPlayingAndHistory makes of obs
ObservedArtistStr(source, obs) ==
  ArtistStr(IF source = "spotify" THEN JsArray(obs.artists)
            ELSE NonArray(obs.artists[1]))

\* a poll of the provider that observes obs sees the artists and the title
\* of nowPlaying
SameAsNowPlaying(obs) ==
  /\ nowPlaying.artist = ObservedArtistStr(nowPlaying.source, obs)
  /\ nowPlaying.track = obs.track

\* C26: after the tray's Block Current Song has added its rule, with
\* reverse mode off, the next poll that observes the artists and the
\* title that are now playing, one artist or several, from either
\* provider, gets the verdict {blocked: true, reason: 'track'}.
C26_BlockedSongIsBlocked ==
  /\ last = Event("blockCurrentSongFromTray", "none", "added", "none")
  /\ ~store.reverse_mode
  => \A obs \in SessionObservations :
       SameAsNowPlaying(obs) =>
         VerdictOn(nowPlaying.source, obs) = Verdict(TRUE, "track")

\* the artist rule that blockCurrentArtistFromTray or history:block-artist
\* has added: the last of the stored list
AddedArtistRule == store.blocked_artists[Len(store.blocked_artists)]

\* C27: after the tray's Block Current Artist or the history's Block Artist
\* has added its rule, with reverse mode off, the next poll that observes
\* the same artists, one or several, is blocked, with the reason artist
\* unless a track rule or a pattern fires first.
C27_BlockedArtistIsBlocked ==
  /\ last.handler \in {"blockCurrentArtistFromTray", "history:block-artist"}
  /\ last.end = "added"
  /\ ~store.reverse_mode
  => \A source \in {"spotify", "apple-music"} :
       \A obs \in SessionObservations :
         normalize(ObservedArtistStr(source, obs)) = AddedArtistRule =>
           /\ VerdictOn(source, obs).blocked
           /\ VerdictOn(source, obs).reason \in {"artist", "track", "pattern"}

\* ------------------------------------------------------------------------
\* C28
\* ------------------------------------------------------------------------

\* the entry e of the history was made when obs was observed
EntryOf(e, obs) ==
  /\ e.artist = ArtistStr(IF e.source = "spotify" THEN JsArray(obs.artists)
                          ELSE NonArray(obs.artists[1]))
  /\ e.track = obs.track

\* C28: the marks of the history are truthful: an entry that carries
\* reasonBlocked = r is one for whose own artists and title the engine
\* returned {blocked: true, reason: r}, and a skip with that reason was
\* issued on its source and succeeded; a skip that completes after
\* now-playing has changed does not mark the newer entry.
C28_MarksTruthful ==
  \A i \in 1..Len(history) :
    history[i].reasonBlocked # "undefined" =>
      /\ \A obs \in LoopObservations :
           EntryOf(history[i], obs) =>
             VerdictOn(history[i].source, obs)
               = Verdict(TRUE, history[i].reasonBlocked)
      /\ \E k \in 1..Len(skipCommands) :
           /\ skipCommands[k].by = "poll"
           /\ skipCommands[k].result = "ok"
           /\ skipCommands[k].source = history[i].source
           /\ skipCommands[k].reason = history[i].reasonBlocked

\* ------------------------------------------------------------------------
\* C29
\* ------------------------------------------------------------------------

\* C29: no automatic skip is issued while enabled is false: a cycle that
\* starts while the setting is off queries no provider, issues no skip and
\* ends with the source idle, and a cycle that started while it was on
\* issues no skip once the setting has been switched off.
C29_NoSkipWhileDisabled ==
  /\ last.end = "disabled" =>
        /\ currentStatus.source = "idle"
        /\ ~isMusicPlaying
  /\ last.skip = "issued" => enabled

\* ------------------------------------------------------------------------
\* C30
\* ------------------------------------------------------------------------

\* the skip command k of a poll cycle fails in this step
SkipFails(k) ==
  /\ skipCommands[k].by = "poll"
  /\ skipCommands[k].result = "pending"
  /\ skipCommands'[k].result = "failed"

\* C30: when the skip command of handleSkip fails, lastSkipTime, the
\* session statistics, the persisted statistics and the marks of the
\* history stay as they were, the message is recorded in
\* currentStatus.error, the cycle returns, and no second skip command is
\* issued in it.
C30_FailedSkipLeavesNoTrace ==
  [][\A k \in 1..Len(skipCommands) :
       SkipFails(k) =>
         /\ UNCHANGED <<lastSkipTime, sessionStats, totalStats, history>>
         /\ currentStatus'.error = SkipError
         /\ skipCommands' = [skipCommands EXCEPT ![k].result = "failed"]
         /\ InFlight' = InFlight - 1]_vars

\* the skip of a blocked title failed: nothing was counted, the title is
\* not marked and the cycle is over
C30_Witness ==
  /\ \E k \in 1..Len(skipCommands) :
       /\ skipCommands[k].by = "poll"
       /\ skipCommands[k].result = "failed"
  /\ currentStatus.error = SkipError
  /\ Len(history) > 0
  /\ history[1].reasonBlocked = "undefined"
  /\ sessionStats = NoStats
  /\ lastSkipTime = 0
  /\ InFlight = 0

\* ------------------------------------------------------------------------
\* C31
\* ------------------------------------------------------------------------

\* the step is one of skipTrackFromTray: up to its await, or after it
TraySkipStep == last'.handler = "skipTrackFromTray"

\* C31: a manual Skip Track from the tray never changes the session
\* statistics, the persisted statistics or the reasonBlocked of a history
\* entry, whether the skip succeeds, fails or is suppressed by the
\* cooldown; of the loop's state it changes only lastSkipTime, and only
\* when the skip command succeeded.
C31_ManualSkipCountsNothing ==
  [][TraySkipStep =>
       /\ UNCHANGED <<sessionStats, totalStats, history, nowPlaying>>
       /\ UNCHANGED <<store, enabled, isMusicPlaying, currentStatus, timers,
                      pollingInterval, cycles>>
       /\ lastSkipTime' # lastSkipTime => last'.skip = "tray-ok"
       /\ last'.skip = "tray-ok" =>
            \E k \in 1..Len(skipCommands) :
              /\ skipCommands[k].by = "tray"
              /\ lastSkipTime' = skipCommands[k].at]_vars

\* a manual skip of a title has succeeded: lastSkipTime is its time, no
\* counter has moved and the title's entry carries no mark
C31_Witness ==
  /\ last = Event("skipTrackFromTray", "none", "none", "tray-ok")
  /\ lastSkipTime >= StartTime
  /\ sessionStats = NoStats
  /\ totalStats = NoStats
  /\ Len(history) > 0
  /\ history[1].reasonBlocked = "undefined"

\* ------------------------------------------------------------------------
\* C32
\* ------------------------------------------------------------------------

\* the total of the counters stats is the sum of its four reasons, and no
\* counter is negative
Consistent(stats) ==
  /\ stats.total = stats.artist + stats.track + stats.pattern + stats.reverse
  /\ \A c \in DOMAIN stats : stats[c] >= 0

\* C32: in every reachable state, for the session statistics and for the
\* persisted statistics, total = artist + track + pattern + reverse and no
\* counter is negative, across every sequence of skips, stats:reset-session
\* and stats:reset-total from the zeroed store.
C32_CountersConsistent ==
  /\ Consistent(sessionStats)
  /\ Consistent(totalStats)

\* an automatic skip was counted and the session statistics were reset
\* after it: the persisted statistics still hold the skip
C32_Witness ==
  /\ last = Event("stats:reset-session", "none", "none", "none")
  /\ sessionStats = NoStats
  /\ totalStats.total = 1
  /\ totalStats.track = 1

\* ------------------------------------------------------------------------
\* C33
\* ------------------------------------------------------------------------

\* the verdict of a poll on the artists and the title under the settings st
VerdictUnder(st, artists, track) ==
  isBlocked(artists, track,
            sanitizeBlockedList(JsArray(st.blocked_artists)),
            sanitizeBlockedTracks(JsArray(st.blocked_tracks)),
            sanitizeBlockedPatterns(JsArray(st.blocked_patterns)),
            st.reverse_mode, st.block_collaborations)

\* the step is one of blocklist:import
ImportStep ==
  /\ pc = "settings"
  /\ pc' = "poll"
  /\ last'.handler = "blocklist:import"

\* the data of the import step is the object that blocklist:export returns
\* for the store as it is
ImportsTheExport ==
  /\ last'.result = "object"
  /\ last'.skip = "1.0"
  /\ exported = blocklistExport(store)

\* C33: blocklist:import applied to the object that blocklist:export
\* returned succeeds and leaves reverse_mode, block_collaborations and the
\* sanitized artist, track and pattern lists as they were, so that every
\* later evaluation returns the verdict it returned before; an import
\* whose data is no object fails and changes nothing.
C33_ExportImportRoundTrip ==
  [][ImportStep =>
       /\ ImportsTheExport =>
            /\ last'.end = "success"
            /\ store'.reverse_mode = store.reverse_mode
            /\ store'.block_collaborations = store.block_collaborations
            /\ sanitizeBlockedList(JsArray(store'.blocked_artists))
                 = sanitizeBlockedList(JsArray(store.blocked_artists))
            /\ sanitizeBlockedTracks(JsArray(store'.blocked_tracks))
                 = sanitizeBlockedTracks(JsArray(store.blocked_tracks))
            /\ sanitizeBlockedPatterns(JsArray(store'.blocked_patterns))
                 = sanitizeBlockedPatterns(JsArray(store.blocked_patterns))
            /\ \A artists \in PurityArtists : \A track \in PurityTracks :
                 VerdictUnder(store', artists, track)
                   = VerdictUnder(store, artists, track)
       /\ last'.result # "object" =>
            /\ last'.end = "failure"
            /\ UNCHANGED store]_vars

\* the default settings were exported and imported, which rewrote the
\* stored artist list, and the poll after it blocked Taylor Swift as before
C33_Witness ==
  /\ pc = "evaluated"
  /\ last = Event("blocklist:import", "object", "success", "1.0")
  /\ exported.artists = JsArray(<<TaylorSwift>>)
  /\ store.blocked_artists = <<normalize(TaylorSwift)>>
  /\ blocked = Verdict(TRUE, "artist")

\* ------------------------------------------------------------------------
\* C34
\* ------------------------------------------------------------------------

\* C34: each sanitizer is idempotent on well-shaped input: a list that
\* blocklist:set-artists, set-tracks or set-patterns sanitized when it
\* stored it is not changed when the next poll sanitizes it again.
C34_SanitizersIdempotent ==
  Evaluated =>
    /\ last.handler = "blocklist:set-artists" =>
         /\ store.blocked_artists = sanitizeBlockedList(list)
         /\ blockedArtists = store.blocked_artists
    /\ last.handler = "blocklist:set-tracks" =>
         /\ store.blocked_tracks = sanitizeBlockedTracks(list)
         /\ blockedTracks = store.blocked_tracks
    /\ last.handler = "blocklist:set-patterns" =>
         /\ store.blocked_patterns = sanitizeBlockedPatterns(list)
         /\ blockedPatterns = store.blocked_patterns

\* a list of two spellings of one artist was set, the first pass made one
\* rule of it and the poll's second pass left the rule alone
C34_Witness ==
  /\ Evaluated
  /\ last.handler = "blocklist:set-artists"
  /\ list = JsArray(<<TaylorSwiftVariant, TaylorSwift>>)
  /\ store.blocked_artists = <<normalize(TaylorSwift)>>
  /\ blockedArtists = <<normalize(TaylorSwift)>>

\* ------------------------------------------------------------------------
\* C35
\* ------------------------------------------------------------------------

\* the normalized (artist-or-absent, track) pairs of the entries of the
\* array raw that have a track left, in the order of the array
NormalizedPairs(raw) ==
  LET withTrack == WithTrack(raw)
      mapped    == [i \in 1..Len(withTrack) |-> SanitizeTrackItem(withTrack[i])]
  IN  SelectSeqBy(mapped,
        {mapped[i] : i \in {j \in 1..Len(mapped) : mapped[j].track # <<>>}})

\* C35: the removal of duplicates in sanitizeBlockedTracks is exact on the
\* pair (artist or absent, track): no two returned rules have the same
\* pair, two entries whose normalized pairs differ are both kept, for all
\* strings including those that contain '|||', and of equal pairs the
\* first one in the order of the input is the one retained.
C35_DedupeExactOnPair ==
  TracksSanitized /\ list.isArray =>
    /\ \A i, j \in 1..Len(sanitized) : sanitized[i] = sanitized[j] => i = j
    /\ \A i \in 1..Len(NormalizedPairs(list.val)) :
         \E j \in 1..Len(sanitized) :
           sanitized[j] = NormalizedPairs(list.val)[i]
    /\ sanitized = Dedupe(NormalizedPairs(list.val), {})

\* 'c' by 'a|||b' and 'b|||c' by 'a' were handed in, and one rule came back
C35_SeparatorCollision ==
  /\ TracksSanitized
  /\ list = JsArray(<<[track |-> <<"c">>,
                       artist |-> <<"a", "|", "|", "|", "b">>],
                      [track |-> <<"b", "|", "|", "|", "c">>,
                       artist |-> <<"a">>]>>)
  /\ Len(sanitized) = 1

\* ------------------------------------------------------------------------
\* C36
\* ------------------------------------------------------------------------

\* a call of startOAuthServer was made in the step
OAuthStarted == Len(oauthCalls') = Len(oauthCalls) + 1

\* C36: the callback server keeps listening until its own callback, its
\* own server error, or five minutes after its own start; the timeout of
\* an earlier call of startOAuthServer that has finished never stops a
\* later server; at most one server listens at a time, and a start while
\* one runs is rejected without disturbing it.
C36_ServerStopsOnlyByItsOwn ==
  /\ [](\A k \in 1..Len(oauthCalls) :
          /\ oauthCalls[k].server = "closed" =>
               /\ oauthCalls[k].closedBy = k
               /\ oauthCalls[k].closedIn = "timeout" =>
                    oauthCalls[k].closedAt
                      = oauthCalls[k].started + OAUTH_TIMEOUT_MS
          /\ oauthCalls[k].server = "listening" =>
               /\ server = k
               /\ now <= oauthCalls[k].started + OAUTH_TIMEOUT_MS)
  /\ [](Cardinality({k \in 1..Len(oauthCalls) :
                       oauthCalls[k].server = "listening"}) <= 1)
  /\ [][OAuthStarted /\ server # NoServer =>
          /\ server' = server
          /\ oauthTimers' = oauthTimers
          /\ SubSeq(oauthCalls', 1, Len(oauthCalls)) = oauthCalls
          /\ oauthCalls'[Len(oauthCalls')].promise = "rejected"
          /\ oauthCalls'[Len(oauthCalls')].server = "none"]_vars

\* the first server ended with its callback, a second one was started
\* within five minutes of the first, and the timeout of the first call
\* closed it before its own five minutes were over
C36_EarlierTimeoutStopsLaterServer ==
  /\ Len(oauthCalls) >= 2
  /\ oauthCalls[1].closedIn = "callback"
  /\ oauthCalls[2].server = "closed"
  /\ oauthCalls[2].closedIn = "timeout"
  /\ oauthCalls[2].closedBy = 1
  /\ oauthCalls[2].closedAt < oauthCalls[2].started + OAUTH_TIMEOUT_MS
  /\ oauthCalls[2].promise = "pending"

\* a start while a server listened was rejected and the server listens on
C36_RejectedStart ==
  /\ Len(oauthCalls) = 2
  /\ oauthCalls[2].reason = "OAuth server is already running"
  /\ oauthCalls[1].server = "listening"
  /\ server = 1

\* ------------------------------------------------------------------------
\* C37
\* ------------------------------------------------------------------------

\* the token request i fails in the step
RefreshFails(i) ==
  /\ i \in 1..Len(refreshes)
  /\ refreshes[i] = "in flight"
  /\ refreshes'[i] = "failed"

RefreshSucceeds(i) ==
  /\ i \in 1..Len(refreshes)
  /\ refreshes[i] = "in flight"
  /\ refreshes'[i] = "succeeded"

SomeRefreshFailed == \E i \in 1..Len(refreshes) : refreshes[i] = "failed"

\* C37: if the token refresh request fails for any reason, the stored
\* access token, refresh token and expiry are all deleted before the error
\* propagates, so that isSpotifyConnected() is false afterwards and later
\* poll cycles do not query Spotify; on a successful refresh the refresh
\* token is kept and the access token and the expiry are replaced together.
C37_FailedRefreshDisconnects ==
  /\ [][\A i \in 1..MaxRefreshes :
          /\ RefreshFails(i) =>
               /\ tokens'.access_token = NoToken
               /\ tokens'.refresh_token = NoToken
               /\ tokens'.expires_at = NoToken
               /\ last'.end = "threw"
          /\ RefreshSucceeds(i) =>
               /\ tokens'.refresh_token = tokens.refresh_token
               /\ tokens'.access_token = NewAccessToken(i)
               /\ tokens'.access_token # tokens.access_token
               /\ \E e \in ExpiresIn : tokens'.expires_at = now + e * 1000]_vars
  /\ [](SomeRefreshFailed =>
          /\ ~isSpotifyConnected(tokens)
          /\ last.handler = "pollNowPlaying" =>
               last.result = "not connected")
  /\ [][SomeRefreshFailed => Len(refreshes') = Len(refreshes)]_vars

\* a request failed with HTTP 400 while another was in flight, that one
\* succeeded afterwards, and the poll after both did not query Spotify
C37_Witness ==
  /\ refreshes = <<"failed", "succeeded">>
  /\ tokens.refresh_token = NoToken
  /\ tokens.access_token = NewAccessToken(2)
  /\ last = Event("pollNowPlaying", "not connected", "none", "none")

\* a request succeeded: the refresh token is the one stored at the start
\* and the access token and expiry are new
C37_WitnessSuccess ==
  /\ refreshes = <<"succeeded">>
  /\ tokens.refresh_token = 1
  /\ tokens.access_token = NewAccessToken(1)
  /\ \E e \in ExpiresIn :
       tokens.expires_at = StartTime + 2 * e * 1000 - REFRESH_MARGIN_MS

====
